---- MODULE Spec2Model ----
(***************************************************************************)
(* The CPU vertex pipeline of cmd/001-textures: clip-space transform,      *)
(* frustum clipping (Sutherland-Hodgman in homogeneous space), barycentric *)
(* interpolation, perspective divide, back-face culling, screen mapping,   *)
(* depth sort and draw-list assembly.                                      *)
(*                                                                         *)
(* Arithmetic.  The program computes in float32.  A number is modelled as  *)
(* a pair <<n, d>>: for d > 0 the rational n/d in lowest terms, and for    *)
(* d = 0 one of the three IEEE special values, <<1,0>> = +Inf,             *)
(* <<-1,0>> = -Inf, <<0,0>> = NaN.  Division by zero, Inf - Inf, 0 * Inf   *)
(* and every comparison with NaN behave as IEEE 754 prescribes.  Rounding  *)
(* is not modelled (finite results are exact) and zero carries no sign     *)
(* (a zero divisor is +0).                                                 *)
(***************************************************************************)
EXTENDS Integers, Sequences, FiniteSets, TLC

Abs(i) == IF i < 0 THEN -i ELSE i
Sgn(i) == IF i < 0 THEN -1 ELSE IF i > 0 THEN 1 ELSE 0

RECURSIVE Gcd(_, _)
Gcd(a, b) == IF b = 0 THEN a ELSE Gcd(b, a % b)

\* the number n/d, normalised (d may be negative or zero on entry)
Q(n, d) ==
    IF d = 0 THEN <<Sgn(n), 0>>
    ELSE IF n = 0 THEN <<0, 1>>
    ELSE LET g == Gcd(Abs(n), Abs(d))
             s == IF d < 0 THEN -1 ELSE 1
         IN  <<(s * n) \div g, (s * d) \div g>>

I(n) == <<n, 1>>
NaN == <<0, 0>>
PosInf == <<1, 0>>
IsNaN(a) == a[1] = 0 /\ a[2] = 0
IsFinite(a) == a[2] # 0

fNeg(a) == <<-a[1], a[2]>>
fAdd(a, b) ==
    IF a[2] = 0 /\ b[2] = 0
    THEN (IF a[1] = b[1] THEN a ELSE NaN)
    ELSE IF a[2] = 1 /\ b[2] = 1 THEN <<a[1] + b[1], 1>>
    ELSE Q(a[1] * b[2] + b[1] * a[2], a[2] * b[2])
fSub(a, b) == fAdd(a, fNeg(b))
fMul(a, b) ==
    IF a[2] = 1 /\ b[2] = 1 THEN <<a[1] * b[1], 1>>
    ELSE Q(a[1] * b[1], a[2] * b[2])
\* 1.0 / a
fRecip(a) ==
    IF a[2] = 0 THEN (IF a[1] = 0 THEN NaN ELSE <<0, 1>>)
    ELSE IF a[1] = 0 THEN PosInf
    ELSE IF a[1] < 0 THEN <<-a[2], -a[1]>> ELSE <<a[2], a[1]>>
fDiv(a, b) == fMul(a, fRecip(b))

\* IEEE comparisons: false whenever an operand is NaN
fLt(a, b) ==
    /\ ~IsNaN(a) /\ ~IsNaN(b)
    /\ IF a[2] = 0 /\ b[2] = 0 THEN a[1] < b[1]
       ELSE a[1] * b[2] < b[1] * a[2]
fLe(a, b) ==
    /\ ~IsNaN(a) /\ ~IsNaN(b)
    /\ IF a[2] = 0 /\ b[2] = 0 THEN a[1] <= b[1]
       ELSE a[1] * b[2] <= b[1] * a[2]
fGt(a, b) == fLt(b, a)
fGe(a, b) == fLe(b, a)

(***************************************************************************)
(* mgl32 vectors and matrices (a matrix is the tuple of its four rows)     *)
(***************************************************************************)
VAdd(a, b) == [i \in DOMAIN a |-> fAdd(a[i], b[i])]
VSub(a, b) == [i \in DOMAIN a |-> fSub(a[i], b[i])]
VMul(a, c) == [i \in DOMAIN a |-> fMul(a[i], c)]
Dot3(a, b) == fAdd(fAdd(fMul(a[1], b[1]), fMul(a[2], b[2])), fMul(a[3], b[3]))
Dot4(a, b) == fAdd(Dot3(a, b), fMul(a[4], b[4]))
Vec3Of(v) == <<v[1], v[2], v[3]>>
Vec4Of(p, w) == <<p[1], p[2], p[3], w>>
IV(t) == [i \in DOMAIN t |-> I(t[i])]
IM(m) == [r \in DOMAIN m |-> IV(m[r])]
Col(m, c) == <<m[1][c], m[2][c], m[3][c], m[4][c]>>
Mul4(a, b) == [r \in 1..4 |-> [c \in 1..4 |-> Dot4(a[r], Col(b, c))]]
Mul4x1(m, v) == [r \in 1..4 |-> Dot4(m[r], v)]
Ident4 == IM(<<<<1,0,0,0>>, <<0,1,0,0>>, <<0,0,1,0>>, <<0,0,0,1>>>>)

(***************************************************************************)
(* Program constants                                                       *)
(***************************************************************************)
game_width == 800
game_height == 600
\* number of values of a uint16 (triangle indices, index buffer entries)
Uint16Range == 65536

(***************************************************************************)
(* vertex, interpolation (main.go 145-168)                                 *)
(***************************************************************************)
Vertex(p, t) == [position |-> p, texcoord |-> t]
Zero4 == <<I(0), I(0), I(0), I(0)>>
Zero2 == <<I(0), I(0)>>

\* mutant: the position is interpolated after the divide, its w is 1
interpolate_vec4_divided(v1, v2, v3, f) ==
    [VAdd(VAdd(VAdd(Zero4, VMul(v1, f[1])), VMul(v2, f[2])), VMul(v3, f[3]))
        EXCEPT ![4] = I(1)]

interpolate_vec4(v1, v2, v3, f) ==
    VAdd(VAdd(VAdd(Zero4, VMul(v1, f[1])), VMul(v2, f[2])), VMul(v3, f[3]))

\* mutant: the second and third weight are exchanged
interpolate_vec2_swapped(v1, v2, v3, f) ==
    VAdd(VAdd(VAdd(Zero2, VMul(v1, f[1])), VMul(v2, f[3])), VMul(v3, f[2]))

interpolate_vec2(v1, v2, v3, f) ==
    VAdd(VAdd(VAdd(Zero2, VMul(v1, f[1])), VMul(v2, f[2])), VMul(v3, f[3]))

interpolate_vertex(v1, v2, v3, f) ==
    [position |-> interpolate_vec4(v1.position, v2.position, v3.position, f),
     texcoord |-> interpolate_vec2(v1.texcoord, v2.texcoord, v3.texcoord, f)]

(***************************************************************************)
(* planes and the clipper (main.go 282-335)                                *)
(***************************************************************************)
Plane(o, n) == [origin |-> IV(o), normal |-> IV(n)]

\* test determines if v is in front of the plane
plane_test(p, v) == fGt(Dot4(VSub(v, p.origin), p.normal), I(0))

\* mutant: the middle of the segment instead of its point on the plane
plane_intersection_mid(p, a, b) == VMul(VAdd(a, b), Q(1, 2))

plane_intersection(p, a, b) ==
    LET u == VSub(b, a)
        w == VSub(a, p.origin)
        d == Dot4(p.normal, u)
        n == fNeg(Dot4(p.normal, w))
    IN  VAdd(a, VMul(u, fDiv(n, d)))

\* mutant: the back plane is missing
clip_planes_no_back ==
    << Plane(<<1, 0, 0, 1>>,  <<-1, 0, 0, 1>>),
       Plane(<<-1, 0, 0, 1>>, <<1, 0, 0, 1>>),
       Plane(<<0, 1, 0, 1>>,  <<0, -1, 0, 1>>),
       Plane(<<0, -1, 0, 1>>, <<0, 1, 0, 1>>),
       Plane(<<0, 0, 1, 1>>,  <<0, 0, -1, 1>>) >>

clip_planes ==
    << Plane(<<1, 0, 0, 1>>,  <<-1, 0, 0, 1>>),   \* right
       Plane(<<-1, 0, 0, 1>>, <<1, 0, 0, 1>>),    \* left
       Plane(<<0, 1, 0, 1>>,  <<0, -1, 0, 1>>),   \* bottom
       Plane(<<0, -1, 0, 1>>, <<0, 1, 0, 1>>),    \* top
       Plane(<<0, 0, 1, 1>>,  <<0, 0, -1, 1>>),   \* front
       Plane(<<0, 0, -1, 1>>, <<0, 0, 1, 1>>) >>  \* back

\* mutant: no intersection point where the ring leaves the plane
ClipEdge_no_exit(plane, s, e) ==
    IF plane_test(plane, e)
    THEN (IF ~plane_test(plane, s)
          THEN <<plane_intersection(plane, s, e), e>>
          ELSE <<e>>)
    ELSE <<>>

\* what one edge s -> e of the ring contributes to the output polygon
ClipEdge(plane, s, e) ==
    IF plane_test(plane, e)
    THEN (IF ~plane_test(plane, s)
          THEN <<plane_intersection(plane, s, e), e>>
          ELSE <<e>>)
    ELSE IF plane_test(plane, s)
    THEN <<plane_intersection(plane, s, e)>>
    ELSE <<>>

\* the inner loop of sutherland_hodgman_3d over a non-empty input polygon:
\* s starts as the last point and follows e
RECURSIVE ClipRing(_, _, _)
ClipRing(plane, input, k) ==
    IF k > Len(input) THEN <<>>
    ELSE LET s == IF k = 1 THEN input[Len(input)] ELSE input[k - 1]
         IN  ClipEdge(plane, s, input[k]) \o ClipRing(plane, input, k + 1)

ClipPass(plane, input) == ClipRing(plane, input, 1)

\* the early return of the plane loop
ClipStops(input) == Len(input) = 0

\* the plane loop; passes collects the polygon left by each pass that ran
RECURSIVE ClipLoop(_, _, _)
ClipLoop(i, output, passes) ==
    IF i > Len(clip_planes) THEN [result |-> output, passes |-> passes]
    ELSE IF ClipStops(output) THEN [result |-> <<>>, passes |-> passes]
    ELSE LET o == ClipPass(clip_planes[i], output)
         IN  ClipLoop(i + 1, o, Append(passes, o))

sutherland_hodgman_3d(p1, p2, p3) == ClipLoop(1, <<p1, p2, p3>>, <<>>)

\* the denominator d of plane.intersection(a, b)
IntersectionDenominator(p, a, b) == Dot4(p.normal, VSub(b, a))

IntersectionCall(plane, s, e) ==
    [s |-> s, e |-> e, d |-> IntersectionDenominator(plane, s, e)]

\* mutant: every edge that ends in front of the plane is intersected
ClipEdgeCalls_entering(plane, s, e) ==
    IF plane_test(plane, e) THEN <<IntersectionCall(plane, s, e)>> ELSE <<>>

\* the calls of plane.intersection the edge s -> e of the ring makes
ClipEdgeCalls(plane, s, e) ==
    IF plane_test(plane, e)
    THEN (IF ~plane_test(plane, s)
          THEN <<IntersectionCall(plane, s, e)>>
          ELSE <<>>)
    ELSE IF plane_test(plane, s)
    THEN <<IntersectionCall(plane, s, e)>>
    ELSE <<>>

\* and those of one pass of the inner loop over the polygon input
RECURSIVE ClipRingCalls(_, _, _)
ClipRingCalls(plane, input, k) ==
    IF k > Len(input) THEN <<>>
    ELSE ClipEdgeCalls(plane, input[IF k = 1 THEN Len(input) ELSE k - 1], input[k])
            \o ClipRingCalls(plane, input, k + 1)

(***************************************************************************)
(* barycentric weights (main.go 337-352)                                   *)
(***************************************************************************)
barycentric(p1, p2, p3, p) ==
    LET v0 == VSub(p2, p1)
        v1 == VSub(p3, p1)
        v2 == VSub(p, p1)
        d00 == Dot3(v0, v0)
        d01 == Dot3(v0, v1)
        d11 == Dot3(v1, v1)
        d20 == Dot3(v2, v0)
        d21 == Dot3(v2, v1)
        d == fSub(fMul(d00, d11), fMul(d01, d01))
        v == fDiv(fSub(fMul(d11, d20), fMul(d01, d21)), d)
        w == fDiv(fSub(fMul(d00, d21), fMul(d01, d20)), d)
        u == fSub(fSub(I(1), v), w)
    IN  <<u, v, w>>

(***************************************************************************)
(* context helpers (main.go 378-406)                                       *)
(***************************************************************************)
set_viewport(x, y, w, h) ==
    [x |-> x, y |-> y, w |-> w, h |-> h, w_2 |-> w \div 2, h_2 |-> h \div 2]

clip_out_of_bounds(a) ==
    LET x == a[1]  y == a[2]  z == a[3]  w == a[4]
    IN  \/ fLt(x, fNeg(w)) \/ fGt(x, w)
        \/ fLt(y, fNeg(w)) \/ fGt(y, w)
        \/ fLt(z, fNeg(w)) \/ fGt(z, w)

clip_to_ndc(src) == VMul(src, fRecip(src[4]))

\* mutant: the y axis is flipped on the way to the screen
ndc_to_screen_flipped(vp, src) ==
    LET w_2 == I(vp.w_2)
        h_2 == I(vp.h_2)
        z == fAdd(fMul(Q(1, 2), src[3]), Q(1, 2))
    IN  << fAdd(fMul(w_2, src[1]), w_2),
           fSub(h_2, fMul(h_2, src[2])),
           z,
           fRecip(z) >>

ndc_to_screen(vp, src) ==
    LET w_2 == I(vp.w_2)
        h_2 == I(vp.h_2)
        z == fAdd(fMul(Q(1, 2), src[3]), Q(1, 2))
    IN  << fAdd(fMul(w_2, src[1]), w_2),
           fAdd(fMul(h_2, src[2]), h_2),
           z,
           fRecip(z) >>

(***************************************************************************)
(* push_triangle: divide, cull, map to the screen (main.go 460-480)        *)
(***************************************************************************)
\* the signed area of the back-face test, on the x, y after the divide
CullArea(ndc1, ndc2, ndc3) ==
    fSub(fMul(fSub(ndc2[1], ndc1[1]), fSub(ndc3[2], ndc1[2])),
         fMul(fSub(ndc3[1], ndc1[1]), fSub(ndc2[2], ndc1[2])))

\* the condition of the early return
\* mutant: a signed area of zero is kept
BackFacing_strict(ndc1, ndc2, ndc3) == fLt(CullArea(ndc1, ndc2, ndc3), I(0))

BackFacing(ndc1, ndc2, ndc3) == fLe(CullArea(ndc1, ndc2, ndc3), I(0))

Distance(s1, s2, s3) == fDiv(fAdd(fAdd(s1[3], s2[3]), s3[3]), I(3))

ScreenTriangle(vp, v1, v2, v3, ndc1, ndc2, ndc3) ==
    LET s1 == ndc_to_screen(vp, ndc1)
        s2 == ndc_to_screen(vp, ndc2)
        s3 == ndc_to_screen(vp, ndc3)
    IN  [v1 |-> Vertex(s1, v1.texcoord),
         v2 |-> Vertex(s2, v2.texcoord),
         v3 |-> Vertex(s3, v3.texcoord),
         distance |-> Distance(s1, s2, s3)]

\* the screen triangles the call appends to screen_triangles: none or one
push_triangle(vp, v1, v2, v3) ==
    LET ndc1 == clip_to_ndc(v1.position)
        ndc2 == clip_to_ndc(v2.position)
        ndc3 == clip_to_ndc(v3.position)
    IN  IF BackFacing(ndc1, ndc2, ndc3) THEN <<>>
        ELSE <<ScreenTriangle(vp, v1, v2, v3, ndc1, ndc2, ndc3)>>

\* one call of push_triangle as the log keeps it: the arguments, the indices
\* of the polygon points they come from (<<>> on the fast path) and what
\* the call appended
PushCall(vp, a, b, c, idx) ==
    [a |-> a, b |-> b, c |-> c, idx |-> idx, out |-> push_triangle(vp, a, b, c)]

(***************************************************************************)
(* clip_triangle_and_push (main.go 440-458)                                *)
(***************************************************************************)
\* mutant: a strip instead of a fan
FanIndices_strip(i) == <<i - 2, i - 1, i>>

\* the polygon points (0-based) of the triangle pushed by loop iteration i
FanIndices(i) == <<0, i - 1, i>>

\* the vertex built for polygon point p of the triangle v1, v2, v3
ClipVertex(v1, v2, v3, p) ==
    interpolate_vertex(v1, v2, v3,
        barycentric(Vec3Of(v1.position), Vec3Of(v2.position),
                    Vec3Of(v3.position), Vec3Of(p)))

\* the call of push_triangle for the polygon points idx
FanCall(vp, v1, v2, v3, points, idx) ==
    PushCall(vp,
             ClipVertex(v1, v2, v3, points[idx[1] + 1]),
             ClipVertex(v1, v2, v3, points[idx[2] + 1]),
             ClipVertex(v1, v2, v3, points[idx[3] + 1]),
             idx)

\* the loop i = 2 .. len(points) - 1
FanCalls(vp, v1, v2, v3, points) ==
    [k \in 1..(Len(points) - 2) |->
        FanCall(vp, v1, v2, v3, points, FanIndices(k + 1))]

ClipAndPush(vp, v1, v2, v3, sh) ==
    [passes |-> sh.passes,
     points |-> sh.result,
     pushes |-> FanCalls(vp, v1, v2, v3, sh.result)]

clip_triangle_and_push(vp, v1, v2, v3) ==
    ClipAndPush(vp, v1, v2, v3,
        sutherland_hodgman_3d(v1.position, v2.position, v3.position))

(***************************************************************************)
(* push_mesh (main.go 408-438)                                             *)
(***************************************************************************)
TransformPoints(pvm, points) ==
    [i \in 1..Len(points) |-> Mul4x1(pvm, Vec4Of(points[i], I(1)))]

\* mutant: the third vertex is not tested
NeedsClip_two(v1, v2, v3) ==
    \/ clip_out_of_bounds(v1.position)
    \/ clip_out_of_bounds(v2.position)

\* the branch condition of the triangle loop
NeedsClip(v1, v2, v3) ==
    \/ clip_out_of_bounds(v1.position)
    \/ clip_out_of_bounds(v2.position)
    \/ clip_out_of_bounds(v3.position)

\* one iteration of the triangle loop: the vertices read, the path taken,
\* the clipper's polygons and the calls of push_triangle
ClippedStep(v1, v2, v3, c) ==
    [v1 |-> v1, v2 |-> v2, v3 |-> v3, clipped |-> TRUE,
     passes |-> c.passes, points |-> c.points, pushes |-> c.pushes]

DirectStep(vp, v1, v2, v3) ==
    [v1 |-> v1, v2 |-> v2, v3 |-> v3, clipped |-> FALSE,
     passes |-> <<>>, points |-> <<>>,
     pushes |-> <<PushCall(vp, v1, v2, v3, <<>>)>>]

VertexStep(vp, v1, v2, v3) ==
    IF NeedsClip(v1, v2, v3)
    THEN ClippedStep(v1, v2, v3, clip_triangle_and_push(vp, v1, v2, v3))
    ELSE DirectStep(vp, v1, v2, v3)

TriangleStep(vp, csp, mesh, t) ==
    VertexStep(vp,
               Vertex(csp[t.p1 + 1], mesh.texcoords[t.t1 + 1]),
               Vertex(csp[t.p2 + 1], mesh.texcoords[t.t2 + 1]),
               Vertex(csp[t.p3 + 1], mesh.texcoords[t.t3 + 1]))

RECURSIVE Appended(_, _)
Appended(pushes, k) ==
    IF k > Len(pushes) THEN <<>>
    ELSE pushes[k].out \o Appended(pushes, k + 1)

RECURSIVE AppendedAll(_, _)
AppendedAll(steps, i) ==
    IF i > Len(steps) THEN <<>>
    ELSE Appended(steps[i].pushes, 1) \o AppendedAll(steps, i + 1)

\* the buffers after push_mesh, and the log of its triangle loop
TriangleLoop(vp, csp, mesh) ==
    [i \in 1..Len(mesh.triangles) |->
        TriangleStep(vp, csp, mesh, mesh.triangles[i])]

PushMeshResult(csp, st0, steps) ==
    [clip_space_points |-> csp,
     screen_triangles |-> st0 \o AppendedAll(steps, 1),
     steps |-> steps]

PushMeshWith(vp, csp, st0, mesh) ==
    PushMeshResult(csp, st0, TriangleLoop(vp, csp, mesh))

push_mesh(proj, view, vp, csp0, st0, mesh) ==
    PushMeshWith(vp, csp0 \o TransformPoints(Mul4(proj, view), mesh.points),
                 st0, mesh)

(***************************************************************************)
(* sort_triangles (main.go 482-489): slices.SortFunc with the comparison   *)
(* function of the source.  For the lengths of the model (at most 12)      *)
(* slices.SortFunc is an insertion sort: for i = 1..n-1, element i moves   *)
(* down while cmp(data[j], data[j-1]) < 0.                                 *)
(***************************************************************************)
SortCmp(a, b) == IF fGe(a.distance, b.distance) THEN -1 ELSE 1

Swap(data, i, j) == [data EXCEPT ![i] = data[j], ![j] = data[i]]

RECURSIVE SortSink(_, _)
SortSink(data, j) ==
    IF j > 1 /\ SortCmp(data[j], data[j - 1]) < 0
    THEN SortSink(Swap(data, j, j - 1), j - 1)
    ELSE data

RECURSIVE SortFrom(_, _)
SortFrom(data, i) ==
    IF i > Len(data) THEN data ELSE SortFrom(SortSink(data, i), i + 1)

sort_triangles(st) == SortFrom(st, 2)

(***************************************************************************)
(* draw_triangles (main.go 491-549)                                        *)
(***************************************************************************)
EbitenVertex(v, tex) ==
    [SrcX |-> fMul(v.texcoord[1], I(tex.w)),
     SrcY |-> fMul(v.texcoord[2], I(tex.h)),
     DstX |-> v.position[1],
     DstY |-> v.position[2],
     ColorR |-> I(1), ColorG |-> I(1), ColorB |-> I(1), ColorA |-> I(1)]

\* uint16(n)
ToUint16(n) == n % Uint16Range

\* the three indices appended for a triangle when the index buffer holds
\* len entries: first_index, first_index+1, first_index+2 in uint16
TriangleIndices(len) ==
    LET first_index == ToUint16(len)
    IN  <<first_index, ToUint16(first_index + 1), ToUint16(first_index + 2)>>

\* the vertex and index buffers after the assembly loop (entry k of the
\* appended part belongs to triangle (k-1) \div 3, appended when the index
\* buffer held Len(ind0) + 3 * ((k-1) \div 3) entries)
Assemble(st, vert0, ind0, tex) ==
    [vertices |-> vert0 \o
        [k \in 1..(3 * Len(st)) |->
            LET t == st[((k - 1) \div 3) + 1]
                o == (k - 1) % 3
            IN  EbitenVertex(IF o = 0 THEN t.v1 ELSE IF o = 1 THEN t.v2 ELSE t.v3,
                             tex)],
     indices |-> ind0 \o
        [k \in 1..(3 * Len(st)) |->
            TriangleIndices(Len(ind0) + 3 * ((k - 1) \div 3))[((k - 1) % 3) + 1]]]

\* mutant: the index entries are counted, not the triangles
DrawnTriangles_entries(ind) == Len(ind)

\* ctx.drawn_triangles = len(ctx.indices) / 3
DrawnTriangles(ind) == Len(ind) \div 3

(***************************************************************************)
(* Inputs of the model                                                     *)
(***************************************************************************)
\* longest mesh of depth layers (triangles handed to sort_triangles)
MaxLayers == 3

P3(x, y, z) == <<I(x), I(y), I(z)>>
T2(s, t) == <<I(s), I(t)>>
Tri(a, b, c, ta, tb, tc) ==
    [p1 |-> a, p2 |-> b, p3 |-> c, t1 |-> ta, t2 |-> tb, t3 |-> tc]

\* local-space points: the unit triangle of the end-to-end scenario, points
\* inside and on the frustum under the identity, and four points beyond it
Palette ==
    << P3(-1, -1, 0), P3(1, -1, 0), P3(0, 1, 0), P3(0, 0, 0), P3(1, 0, 0),
       P3(2, 2, 2), P3(2, 2, 0), P3(2, 0, 2), P3(0, 2, 2) >>

TexPalette == << T2(0, 0), T2(1, 0), T2(0, 1) >>

\* a mesh over the palette with the single triangle (i, j, k)
PaletteMesh(i, j, k) ==
    [points |-> Palette, texcoords |-> TexPalette,
     triangles |-> << Tri(i, j, k, 0, 1, 2) >>]

PaletteMeshes ==
    LET N == 0..(Len(Palette) - 1)
    IN  { PaletteMesh(t[1], t[2], t[3]) :
            t \in {u \in N \X N \X N : u[1] # u[2] /\ u[1] # u[3] /\ u[2] # u[3]} }

UnitMesh == PaletteMesh(0, 1, 2)

\* depth layers: a front-facing triangle at z = -3/5, 0, -4/5 (mapped depth
\* 0.2, 0.5, 0.1 under the identity), and a triangle with three collinear
\* points that crosses the plane x = w
LayerPoints ==
    << <<I(0), I(0), Q(-3, 5)>>, <<I(1), I(0), Q(-3, 5)>>, <<I(0), I(1), Q(-3, 5)>>,
       <<I(0), I(0), I(0)>>,     <<I(1), I(0), I(0)>>,     <<I(0), I(1), I(0)>>,
       <<I(0), I(0), Q(-4, 5)>>, <<I(1), I(0), Q(-4, 5)>>, <<I(0), I(1), Q(-4, 5)>>,
       <<I(0), I(0), I(0)>>,     <<I(1), I(0), I(0)>>,     <<I(2), I(0), I(0)>> >>

Layers == 0..3

\* triangle number n (from 0) of a layer mesh lies in layer l; its texcoords
\* are rotated by n, which tells equal layers apart
LayerTri(l, n) ==
    Tri(3 * l, 3 * l + 1, 3 * l + 2, n % 3, (n + 1) % 3, (n + 2) % 3)

LayerMesh(ls) ==
    [points |-> LayerPoints, texcoords |-> TexPalette,
     triangles |-> [n \in 1..Len(ls) |-> LayerTri(ls[n], n - 1)]]

RECURSIVE SeqsUpTo(_, _)
SeqsUpTo(S, n) ==
    IF n = 0 THEN {<<>>}
    ELSE LET shorter == SeqsUpTo(S, n - 1)
         IN  shorter \cup {Append(q, x) : q \in shorter, x \in S}

LayerMeshes == { LayerMesh(ls) : ls \in SeqsUpTo(Layers, MaxLayers) }

\* a mesh of twelve triangles of three points each, named by what the
\* identity view and projection make of them
ClipMeshPoints ==
    << <<I(0), I(0), I(0)>>, <<Q(1, 2), I(0), I(0)>>, <<I(0), Q(1, 2), I(0)>>,  \* inside, kept
       <<I(0), I(0), I(0)>>, <<I(0), Q(1, 2), I(0)>>, <<Q(1, 2), I(0), I(0)>>,  \* inside, culled
       <<I(0), I(0), I(0)>>, <<Q(1, 2), I(0), I(0)>>, <<I(1), I(0), I(0)>>,     \* inside, area 0
       <<I(2), I(0), I(0)>>, <<I(0), Q(1, 2), I(0)>>, <<I(0), I(0), I(0)>>,     \* one vertex cut off
       P3(2, 0, 0),   P3(3, 0, 0),   P3(2, 1, 0),                               \* x > w
       P3(-2, 0, 0),  P3(-3, 0, 0),  P3(-2, 1, 0),                              \* x < -w
       P3(0, 2, 0),   P3(0, 3, 0),   P3(1, 2, 0),                               \* y > w
       P3(0, -2, 0),  P3(0, -3, 0),  P3(1, -2, 0),                              \* y < -w
       P3(0, 0, 2),   P3(1, 0, 2),   P3(0, 1, 3),                               \* z > w
       P3(0, 0, -2),  P3(2, 0, -2),  P3(0, 1, -3),                              \* z < -w, crosses x = w
       <<Q(-1, 2), Q(-1, 2), I(0)>>, <<I(2), Q(-1, 2), I(0)>>, <<Q(-1, 2), I(2), I(0)>>,  \* two cut off
       P3(0, 0, 0),   P3(1, 0, 0),   P3(2, 0, 0) >>                             \* collinear, crosses x = w

ClipMesh ==
    [points |-> ClipMeshPoints, texcoords |-> TexPalette,
     triangles |-> [n \in 1..(Len(ClipMeshPoints) \div 3) |->
                        Tri(3 * n - 3, 3 * n - 2, 3 * n - 1, 0, 1, 2)]]

Meshes == PaletteMeshes \cup LayerMeshes \cup {ClipMesh}

\* view matrices: identity, half turns about the y and the x axis
RotY180 == IM(<<<<-1,0,0,0>>, <<0,1,0,0>>, <<0,0,-1,0>>, <<0,0,0,1>>>>)
RotX180 == IM(<<<<1,0,0,0>>, <<0,-1,0,0>>, <<0,0,-1,0>>, <<0,0,0,1>>>>)
Views == {Ident4, RotY180, RotX180}

\* projections: the identity (maps [-1,1] directly to clip space) and the
\* perspective matrix with a 90 degree field of view, aspect 1, near 1, far 3
Persp13 == IM(<<<<1,0,0,0>>, <<0,1,0,0>>, <<0,0,-2,-3>>, <<0,0,-1,0>>>>)
Projs == {Ident4, Persp13}

\* the size of the texture image
texture == [w |-> 4, h |-> 2]

(***************************************************************************)
(* State                                                                   *)
(***************************************************************************)
(***************************************************************************)
(* camera (main.go 115-132) and what game.Update and game.Draw compute     *)
(* with it (main.go 230-280, 573-582).  Angles are radians in hundredths,  *)
(* the step of the cursor (dx = pixels / 100): math.Pi is 3.14.  The       *)
(* rotation matrices of mgl32 are taken at the angle rounded to the        *)
(* nearest quarter turn, where sine and cosine are 0, 1 or -1, so that a   *)
(* rotation is an exact rotation (determinant 1) in rational arithmetic.   *)
(***************************************************************************)
Pi == Q(314, 100)
PiHalf == Q(157, 100)

\* mutant: the upper limit is not applied
Clamp_low_only(a, low, high) == IF fLt(a, low) THEN low ELSE a

\* mgl32.Clamp
Clamp(a, low, high) ==
    IF fLt(a, low) THEN low ELSE IF fGt(a, high) THEN high ELSE a

\* the quarter turn (0..3) nearest to an angle given in hundredths
Hundredths(a) == (a[1] * 100) \div a[2]
Quadrant(a) == (((Hundredths(a) % 628) + 78) \div 157) % 4
Cos(a) == I(<<1, 0, -1, 0>>[Quadrant(a) + 1])
Sin(a) == I(<<0, 1, 0, -1>>[Quadrant(a) + 1])

\* mgl32.HomogRotate3DX, HomogRotate3DY, Translate3D (rows of the matrix)
HomogRotate3DX(a) ==
    << <<I(1), I(0), I(0), I(0)>>,
       <<I(0), Cos(a), fNeg(Sin(a)), I(0)>>,
       <<I(0), Sin(a), Cos(a), I(0)>>,
       <<I(0), I(0), I(0), I(1)>> >>

HomogRotate3DY(a) ==
    << <<Cos(a), I(0), Sin(a), I(0)>>,
       <<I(0), I(1), I(0), I(0)>>,
       <<fNeg(Sin(a)), I(0), Cos(a), I(0)>>,
       <<I(0), I(0), I(0), I(1)>> >>

Translate3D(x, y, z) ==
    << <<I(1), I(0), I(0), x>>,
       <<I(0), I(1), I(0), y>>,
       <<I(0), I(0), I(1), z>>,
       <<I(0), I(0), I(0), I(1)>> >>

\* mgl32.Mat3.Det and mgl32.Mat4.Det (expansion along the first row)
Det3(m) ==
    fAdd(fSub(fMul(m[1][1], fSub(fMul(m[2][2], m[3][3]), fMul(m[2][3], m[3][2]))),
              fMul(m[1][2], fSub(fMul(m[2][1], m[3][3]), fMul(m[2][3], m[3][1])))),
         fMul(m[1][3], fSub(fMul(m[2][1], m[3][2]), fMul(m[2][2], m[3][1]))))

Drop(row, c) == [k \in 1..3 |-> row[IF k < c THEN k ELSE k + 1]]
Minor(m, c) == <<Drop(m[2], c), Drop(m[3], c), Drop(m[4], c)>>

Det(m) ==
    fAdd(fSub(fMul(m[1][1], Det3(Minor(m, 1))), fMul(m[1][2], Det3(Minor(m, 2)))),
         fSub(fMul(m[1][3], Det3(Minor(m, 3))), fMul(m[1][4], Det3(Minor(m, 4)))))

ZeroMat4 == <<Zero4, Zero4, Zero4, Zero4>>
Zero3 == <<I(0), I(0), I(0)>>

\* mgl32.LookAtV(vec3{0, 10, -10}, vec3{0, 10, 10}, vec3{0, 1, 0}): forward
\* (0,0,1), side (-1,0,0), up (0,1,0), then the translation by -eye
DefaultLookAt ==
    Mul4(IM(<<<<-1,0,0,0>>, <<0,1,0,0>>, <<0,0,-1,0>>, <<0,0,0,1>>>>),
         Translate3D(I(0), I(-10), I(10)))

\* the camera main constructs: yaw and pos set, every other field zero
NewCamera ==
    [pitch |-> I(0), yaw |-> Pi, pos |-> <<I(0), I(10), I(-10)>>,
     drag_x |-> 0, drag_y |-> 0, dragging |-> FALSE,
     up |-> Zero3, forward |-> Zero3, right |-> Zero3,
     view_matrix |-> ZeroMat4]

\* the else-branch of game.Update's dragging test (main.go 241-270), in the
\* order of the source: angles, basis vectors, position, view matrix
Step(pos, dir, plus, minus) ==
    IF plus THEN VAdd(pos, dir) ELSE IF minus THEN VSub(pos, dir) ELSE pos

CameraViewed(cam, view, pos) ==
    [cam EXCEPT !.pos = pos,
                !.view_matrix =
                    Mul4(view, Translate3D(fNeg(pos[1]), fNeg(pos[2]), fNeg(pos[3])))]

CameraMoved(cam, view, in) ==
    CameraViewed(cam, view,
        Step(Step(cam.pos, cam.forward, in.forward_key, in.back_key),
             cam.right, in.right_key, in.left_key))

CameraBased(cam, view, in) ==
    CameraMoved([cam EXCEPT !.right = VMul(Vec3Of(view[1]), I(-1)),
                            !.up = Vec3Of(view[2]),
                            !.forward = VMul(Vec3Of(view[3]), I(-1))],
                view, in)

CameraTurned(cam, in) ==
    CameraBased(cam,
        Mul4(Mul4(Ident4, HomogRotate3DX(cam.pitch)), HomogRotate3DY(cam.yaw)),
        in)

\* mutant: the yaw follows the cursor instead of opposing it
DragUpdate_following(cam, in) ==
    CameraTurned(
        [cam EXCEPT !.pitch = Clamp(fAdd(cam.pitch, Q(in.cy - cam.drag_y, 100)),
                                    fNeg(PiHalf), PiHalf),
                    !.yaw = fAdd(cam.yaw, Q(in.cx - cam.drag_x, 100))],
        in)

DragUpdate(cam, in) ==
    CameraTurned(
        [cam EXCEPT !.pitch = Clamp(fAdd(cam.pitch, Q(in.cy - cam.drag_y, 100)),
                                    fNeg(PiHalf), PiHalf),
                    !.yaw = fSub(cam.yaw, Q(in.cx - cam.drag_x, 100))],
        in)

\* mutant: a release leaves the dragging flag as it is
Update_sticky(cam, in) ==
    IF in.pressed
    THEN [(IF ~cam.dragging THEN [cam EXCEPT !.dragging = TRUE]
                            ELSE DragUpdate(cam, in))
            EXCEPT !.drag_x = in.cx, !.drag_y = in.cy]
    ELSE cam

\* mutant: the cursor position is recorded on every Update
Update_tracking(cam, in) ==
    IF in.pressed
    THEN [(IF ~cam.dragging THEN [cam EXCEPT !.dragging = TRUE]
                            ELSE DragUpdate(cam, in))
            EXCEPT !.drag_x = in.cx, !.drag_y = in.cy]
    ELSE [cam EXCEPT !.dragging = FALSE, !.drag_x = in.cx, !.drag_y = in.cy]

\* mutant: the first pressed Update already turns and moves the camera
Update_snapping(cam, in) ==
    IF in.pressed
    THEN [DragUpdate(cam, in)
            EXCEPT !.dragging = TRUE, !.drag_x = in.cx, !.drag_y = in.cy]
    ELSE [cam EXCEPT !.dragging = FALSE]

\* game.Update (main.go 230-280) on the camera; in.pressed is
\* IsMouseButtonPressed(MouseButtonLeft), in.cx, in.cy the cursor position,
\* in.forward_key is W or Up, back_key S or Down, right_key D or Right,
\* left_key A or Left.  (game.cycle, which nothing reads, is left out.)
Update(cam, in) ==
    IF in.pressed
    THEN [(IF ~cam.dragging THEN [cam EXCEPT !.dragging = TRUE]
                            ELSE DragUpdate(cam, in))
            EXCEPT !.drag_x = in.cx, !.drag_y = in.cy]
    ELSE [cam EXCEPT !.dragging = FALSE]

\* mutant: the camera's matrix is used whatever its determinant
DrawView_always(cam) == cam.view_matrix

\* game.Draw's choice of the context's view matrix (main.go 573-582)
DrawView(cam) ==
    IF Det(cam.view_matrix) = I(0) THEN DefaultLookAt ELSE cam.view_matrix

(***************************************************************************)
(* load_obj (001: main.go 170-215; 000: main.go 104-139) and the fmt       *)
(* scanning it rests on.  The mesh text is a sequence of characters, each  *)
(* a one-character string; "sp" is the space and "nl" the newline.         *)
(* Numerals are runs of decimal digits (no sign, point or exponent).       *)
(***************************************************************************)
Digits == <<"0", "1", "2", "3", "4", "5", "6", "7", "8", "9">>
DigitChars == { Digits[i] : i \in 1..10 }
DigitVal(c) == (CHOOSE i \in 1..10 : Digits[i] = c) - 1

RECURSIVE SkipWhile(_, _, _)
SkipWhile(src, pos, S) ==
    IF pos <= Len(src) /\ src[pos] \in S THEN SkipWhile(src, pos + 1, S) ELSE pos

RECURSIVE SkipUntil(_, _, _)
SkipUntil(src, pos, S) ==
    IF pos <= Len(src) /\ src[pos] \notin S THEN SkipUntil(src, pos + 1, S) ELSE pos

RECURSIVE NumVal(_, _, _)
NumVal(src, pos, acc) ==
    IF pos <= Len(src) /\ src[pos] \in DigitChars
    THEN NumVal(src, pos + 1, 10 * acc + DigitVal(src[pos]))
    ELSE acc

\* fmt.Fscanln(reader) without operands: reads up to and including the
\* newline, or up to and including the first character that is not a space
\* (the error "expected newline", which load_obj ignores)
RECURSIVE Fscanln(_, _)
Fscanln(src, pos) ==
    IF pos > Len(src) THEN pos
    ELSE IF src[pos] = "sp" THEN Fscanln(src, pos + 1)
    ELSE pos + 1

\* one verb of Fscanf: spaces are skipped, then a run of digits is read;
\* %d into a uint16 fails on a value beyond 16 bits
NumberRead(src, verb, from, to) ==
    IF to = from THEN [ok |-> FALSE, pos |-> from]
    ELSE IF verb = "%d" /\ NumVal(src, from, 0) >= Uint16Range
    THEN [ok |-> FALSE, pos |-> to]
    ELSE [ok |-> TRUE, pos |-> to, val |-> NumVal(src, from, 0)]

NumberFrom(src, verb, from) ==
    NumberRead(src, verb, from, SkipWhile(src, from, DigitChars))

ScanNumber(src, verb, pos) == NumberFrom(src, verb, SkipWhile(src, pos, {"sp"}))

\* fmt.Fscanf(reader, format, ...): format is the sequence of its verbs,
\* spaces and literal characters; the result holds the operands read
RECURSIVE Fscanf(_, _, _, _, _)
FscanfAfter(src, format, i, vals, r) ==
    IF r.ok THEN Fscanf(src, r.pos, format, i + 1, Append(vals, r.val))
    ELSE [ok |-> FALSE, pos |-> r.pos, vals |-> vals]

Fscanf(src, pos, format, i, vals) ==
    IF i > Len(format) THEN [ok |-> TRUE, pos |-> pos, vals |-> vals]
    ELSE IF format[i] \in {"%f", "%d"}
    THEN FscanfAfter(src, format, i, vals, ScanNumber(src, format[i], pos))
    ELSE IF format[i] = "sp"
    THEN Fscanf(src, SkipWhile(src, pos, {"sp"}), format, i + 1, vals)
    ELSE IF pos <= Len(src) /\ src[pos] = format[i]
    THEN Fscanf(src, pos + 1, format, i + 1, vals)
    ELSE [ok |-> FALSE, pos |-> pos, vals |-> vals]

VertexFormat == <<"%f", "sp", "%f", "sp", "%f">>
TexcoordFormat == <<"%f", "sp", "%f">>
FaceFormat ==
    <<"%d", "/", "%d", "sp", "%d", "/", "%d", "sp", "%d", "/", "%d">>
FaceFormat000 == <<"%d", "sp", "%d", "sp", "%d">>

NoMesh == [points |-> <<>>, texcoords |-> <<>>, triangles |-> <<>>]
NilMesh == [nil |-> TRUE]
LoadError(msg) == [mesh |-> NilMesh, err |-> msg]
Loaded(mesh) == [mesh |-> mesh, err |-> "nil"]

\* v1 - 1 in uint16
Pred16(n) == ToUint16(n - 1)

\* load_obj of the 001 demo: Record is one iteration of its loop, after
\* fmt.Fscan has read the type typ and left the reader at pos
RECURSIVE load_obj_loop(_, _, _)

VertexRecord(src, mesh, r) ==
    IF ~r.ok THEN LoadError("bad vertex")
    ELSE load_obj_loop(src, r.pos,
            [mesh EXCEPT !.points =
                Append(@, <<I(r.vals[1]), I(r.vals[2]), I(r.vals[3])>>)])

TexcoordRecord(src, mesh, r) ==
    IF ~r.ok THEN LoadError("bad texcoord")
    ELSE load_obj_loop(src, r.pos,
            [mesh EXCEPT !.texcoords = Append(@, <<I(r.vals[1]), I(r.vals[2])>>)])

FaceRecord(src, mesh, r) ==
    IF ~r.ok THEN LoadError("bad face")
    ELSE load_obj_loop(src, r.pos,
            [mesh EXCEPT !.triangles =
                Append(@, [p1 |-> Pred16(r.vals[1]), t1 |-> Pred16(r.vals[2]),
                           p2 |-> Pred16(r.vals[3]), t2 |-> Pred16(r.vals[4]),
                           p3 |-> Pred16(r.vals[5]), t3 |-> Pred16(r.vals[6])])])

Record(src, typ, pos, mesh) ==
    IF typ \in {<<"#">>, <<"o">>, <<"s">>, <<"l">>}
    THEN load_obj_loop(src, Fscanln(src, pos), mesh)
    ELSE IF typ = <<"v">>
    THEN VertexRecord(src, mesh, Fscanf(src, pos, VertexFormat, 1, <<>>))
    ELSE IF typ = <<"v", "t">>
    THEN TexcoordRecord(src, mesh, Fscanf(src, pos, TexcoordFormat, 1, <<>>))
    ELSE IF typ = <<"f">>
    THEN FaceRecord(src, mesh, Fscanf(src, pos, FaceFormat, 1, <<>>))
    ELSE LoadError("unknown type")

\* fmt.Fscan(reader, &typ): spaces and newlines are skipped, io.EOF ends
\* the loop, otherwise the type is the run of characters up to a space
TypeAt(src, from, mesh) ==
    IF from > Len(src) THEN Loaded(mesh)
    ELSE Record(src,
                SubSeq(src, from, SkipUntil(src, from, {"sp", "nl"}) - 1),
                SkipUntil(src, from, {"sp", "nl"}), mesh)

load_obj_loop(src, pos, mesh) ==
    TypeAt(src, SkipWhile(src, pos, {"sp", "nl"}), mesh)

load_obj(src) == load_obj_loop(src, 1, NoMesh)

\* load_obj of the 000 demo: the switch has no default case, its mesh holds
\* vertices (position, color) and triangles (v1, v2, v3, rgba)
NoMesh000 == [vertices |-> <<>>, triangles |-> <<>>]

RECURSIVE load_obj_000_loop(_, _, _)

VertexRecord000(src, mesh, r) ==
    IF ~r.ok THEN LoadError("bad vertex")
    ELSE load_obj_000_loop(src, r.pos,
            [mesh EXCEPT !.vertices =
                Append(@, [position |-> <<I(r.vals[1]), I(r.vals[2]), I(r.vals[3])>>,
                           color |-> <<I(0), I(0), I(0)>>])])

FaceRecord000(src, mesh, r) ==
    IF ~r.ok THEN LoadError("bad face")
    ELSE load_obj_000_loop(src, r.pos,
            [mesh EXCEPT !.triangles =
                Append(@, [v1 |-> Pred16(r.vals[1]), v2 |-> Pred16(r.vals[2]),
                           v3 |-> Pred16(r.vals[3]), rgba |-> Zero4])])

Record000(src, typ, pos, mesh) ==
    IF typ \in {<<"#">>, <<"o">>, <<"s">>}
    THEN load_obj_000_loop(src, Fscanln(src, pos), mesh)
    ELSE IF typ = <<"v">>
    THEN VertexRecord000(src, mesh, Fscanf(src, pos, VertexFormat, 1, <<>>))
    ELSE IF typ = <<"f">>
    THEN FaceRecord000(src, mesh, Fscanf(src, pos, FaceFormat000, 1, <<>>))
    ELSE load_obj_000_loop(src, pos, mesh)

TypeAt000(src, from, mesh) ==
    IF from > Len(src) THEN Loaded(mesh)
    ELSE Record000(src,
                   SubSeq(src, from, SkipUntil(src, from, {"sp", "nl"}) - 1),
                   SkipUntil(src, from, {"sp", "nl"}), mesh)

load_obj_000_loop(src, pos, mesh) ==
    TypeAt000(src, SkipWhile(src, pos, {"sp", "nl"}), mesh)

load_obj_000(src) == load_obj_000_loop(src, 1, NoMesh000)

\* every index a triangle holds is an index of its mesh (what the bounds
\* checks of push_mesh's slice reads need)
IndicesInRange(m) ==
    \A i \in 1..Len(m.triangles) :
        /\ m.triangles[i].p1 < Len(m.points)
        /\ m.triangles[i].p2 < Len(m.points)
        /\ m.triangles[i].p3 < Len(m.points)
        /\ m.triangles[i].t1 < Len(m.texcoords)
        /\ m.triangles[i].t2 < Len(m.texcoords)
        /\ m.triangles[i].t3 < Len(m.texcoords)

(***************************************************************************)
(* The pipeline of the 000 demo: Game.Draw                                 *)
(* (src/cmd/000-shaders-test/main.go 214-320)                              *)
(* The eye circles the origin; cos and sin of cycle/200 are taken at the   *)
(* nearest quarter turn and the eye's height -0.1 as 0, which keeps the    *)
(* look-at basis rational.  1/tan(30/2) = -1.168... is taken as -7/6.      *)
(***************************************************************************)
game_aspect == Q(game_width, game_height)
Cot15 == Q(-7, 6)

Cross(a, b) ==
    << fSub(fMul(a[2], b[3]), fMul(a[3], b[2])),
       fSub(fMul(a[3], b[1]), fMul(a[1], b[3])),
       fSub(fMul(a[1], b[2]), fMul(a[2], b[1])) >>

FAbs(a) == IF fLt(a, I(0)) THEN fNeg(a) ELSE a

\* Vec3.Normalize, of a vector along an axis
Normalize(v) ==
    VMul(v, fRecip(fAdd(fAdd(FAbs(v[1]), FAbs(v[2])), FAbs(v[3]))))

LookAtBasis(f, s) ==
    << Vec4Of(s, I(0)),
       Vec4Of(Cross(s, f), I(0)),
       Vec4Of(VMul(f, I(-1)), I(0)),
       <<I(0), I(0), I(0), I(1)>> >>

\* mgl32.LookAtV
LookAtV(eye, center, up) ==
    Mul4(LookAtBasis(Normalize(VSub(center, eye)),
                     Normalize(Cross(Normalize(VSub(center, eye)),
                                     Normalize(up)))),
         Translate3D(fNeg(eye[1]), fNeg(eye[2]), fNeg(eye[3])))

\* mgl32.Perspective, given 1/tan(fovy/2)
Perspective(cot, aspect, near, far) ==
    << <<fDiv(cot, aspect), I(0), I(0), I(0)>>,
       <<I(0), cot, I(0), I(0)>>,
       <<I(0), I(0), fDiv(fAdd(near, far), fSub(near, far)),
         fDiv(fMul(I(2), fMul(far, near)), fSub(near, far))>>,
       <<I(0), I(0), I(-1), I(0)>> >>

Eye(c) ==
    <<fMul(Cos(Q(c, 200)), I(2)), I(0), fMul(Sin(Q(c, 200)), I(2))>>

projection_view_matrix(c) ==
    Mul4(Perspective(Cot15, game_aspect, I(1), I(100)),
         LookAtV(Eye(c), <<I(0), I(0), I(0)>>, <<I(0), I(1), I(0)>>))

ClipVertices(pv, m) ==
    [i \in 1..Len(m.vertices) |-> Mul4x1(pv, Vec4Of(m.vertices[i].position, I(1)))]

clip_to_ndc_000(src) ==
    << fMul(src[1], fRecip(src[4])),
       fMul(src[2], fRecip(src[4])),
       fMul(src[3], fRecip(src[4])) >>

ndc_to_screen_000(vp, src) ==
    << fAdd(fMul(I(vp.w_2), src[1]), I(vp.w_2)),
       fAdd(fMul(I(vp.h_2), src[2]), I(vp.h_2)),
       fAdd(fMul(Q(1, 2), src[3]), Q(1, 2)) >>

Nothing000 == [screen_triangles |-> <<>>, screen_vertices |-> <<>>]

\* the else branch after the divide: cull, or append one screen triangle
\* and its three screen vertices
Divided000(vp, tri, first, ndc0, ndc1, ndc2) ==
    IF BackFacing(ndc0, ndc1, ndc2) THEN Nothing000
    ELSE [screen_triangles |->
            << [first_vertex |-> ToUint16(first),
                average_z |-> Distance(ndc_to_screen_000(vp, ndc0),
                                       ndc_to_screen_000(vp, ndc1),
                                       ndc_to_screen_000(vp, ndc2)),
                rgba |-> tri.rgba] >>,
          screen_vertices |->
            << ndc_to_screen_000(vp, ndc0), ndc_to_screen_000(vp, ndc1),
               ndc_to_screen_000(vp, ndc2) >>]

\* mutant: only the first vertex is tested against the bounds
Kept000_first(vp, tri, first, c0, c1, c2) ==
    IF clip_out_of_bounds(c0)
    THEN Nothing000
    ELSE Divided000(vp, tri, first, clip_to_ndc_000(c0), clip_to_ndc_000(c1),
                    clip_to_ndc_000(c2))

\* one iteration of the triangle loop: what it appends
Kept000(vp, tri, first, c0, c1, c2) ==
    IF clip_out_of_bounds(c0) \/ clip_out_of_bounds(c1) \/ clip_out_of_bounds(c2)
    THEN Nothing000
    ELSE Divided000(vp, tri, first, clip_to_ndc_000(c0), clip_to_ndc_000(c1),
                    clip_to_ndc_000(c2))

Looped000(acc, tri, c0, c1, c2, kept) ==
    [screen_triangles |-> acc.screen_triangles \o kept.screen_triangles,
     screen_vertices |-> acc.screen_vertices \o kept.screen_vertices,
     steps |-> Append(acc.steps,
                      [triangle |-> tri, c0 |-> c0, c1 |-> c1, c2 |-> c2,
                       screen_triangles |-> kept.screen_triangles,
                       screen_vertices |-> kept.screen_vertices])]

Iteration000(cv, vp, tri, acc) ==
    Looped000(acc, tri, cv[tri.v1 + 1], cv[tri.v2 + 1], cv[tri.v3 + 1],
              Kept000(vp, tri, Len(acc.screen_vertices),
                      cv[tri.v1 + 1], cv[tri.v2 + 1], cv[tri.v3 + 1]))

RECURSIVE TriangleLoop000(_, _, _, _, _)
TriangleLoop000(cv, vp, tris, i, acc) ==
    IF i > Len(tris) THEN acc
    ELSE TriangleLoop000(cv, vp, tris, i + 1, Iteration000(cv, vp, tris[i], acc))

\* slices.SortFunc on average_z (insertion sort up to 12 elements)
SortCmp000(a, b) == IF fGe(a.average_z, b.average_z) THEN -1 ELSE 1

RECURSIVE SortSink000(_, _)
SortSink000(data, j) ==
    IF j > 1 /\ SortCmp000(data[j], data[j - 1]) < 0
    THEN SortSink000(Swap(data, j, j - 1), j - 1)
    ELSE data

RECURSIVE SortFrom000(_, _)
SortFrom000(data, i) ==
    IF i > Len(data) THEN data ELSE SortFrom000(SortSink000(data, i), i + 1)

EbitenVertex000(s, rgba) ==
    [DstX |-> s[1], DstY |-> s[2],
     ColorR |-> rgba[1], ColorG |-> rgba[2], ColorB |-> rgba[3],
     ColorA |-> rgba[4]]

\* the loop that fills vertices and indices from the sorted triangles
Assemble000(st, sv) ==
    [vertices |->
        [k \in 1..(3 * Len(st)) |->
            EbitenVertex000(
                sv[ToUint16(st[((k - 1) \div 3) + 1].first_vertex + ((k - 1) % 3)) + 1],
                st[((k - 1) \div 3) + 1].rgba)],
     indices |->
        [k \in 1..(3 * Len(st)) |->
            TriangleIndices(3 * ((k - 1) \div 3))[((k - 1) % 3) + 1]]]

Drawn000(looped, st) ==
    [steps |-> looped.steps,
     screen_triangles |-> st,
     screen_vertices |-> looped.screen_vertices,
     out |-> Assemble000(st, looped.screen_vertices)]

Looped000Sorted(looped) ==
    Drawn000(looped, SortFrom000(looped.screen_triangles, 2))

\* Game.Draw: the locals at the call of screen.DrawTriangles
Draw000(m, c, w, h) ==
    Looped000Sorted(
        TriangleLoop000(ClipVertices(projection_view_matrix(c), m),
                        set_viewport(0, 0, w, h), m.triangles, 1,
                        [screen_triangles |-> <<>>, screen_vertices |-> <<>>,
                         steps |-> <<>>]))

(***************************************************************************)
(* The layer stack of the 003 demo's ui context                            *)
(* (src/cmd/003-imgui/main.go 95-113, 163-175, 280-329)                    *)
(* An image is its bounds, as image.Rectangle: Min (x0, y0), Max (x1, y1). *)
(***************************************************************************)
Min2(a, b) == IF a < b THEN a ELSE b
Max2(a, b) == IF a > b THEN a ELSE b

\* image.Rect, image.Rectangle{}, Empty, Intersect
Rect(x0, y0, x1, y1) ==
    [x0 |-> Min2(x0, x1), y0 |-> Min2(y0, y1),
     x1 |-> Max2(x0, x1), y1 |-> Max2(y0, y1)]

ZR == [x0 |-> 0, y0 |-> 0, x1 |-> 0, y1 |-> 0]

Empty(r) == r.x0 >= r.x1 \/ r.y0 >= r.y1

Canon(r) == IF Empty(r) THEN ZR ELSE r

Intersect(r, s) ==
    Canon([x0 |-> Max2(r.x0, s.x0), y0 |-> Max2(r.y0, s.y0),
           x1 |-> Min2(r.x1, s.x1), y1 |-> Min2(r.y1, s.y1)])

\* (*ebiten.Image).SubImage: the part of the image inside r
SubImage(img, r) == Intersect(r, img)

Nil == [nil |-> TRUE]

\* uid_t and its zero value; a map is a function on its keys
uid_zero == [base |-> 0, id |-> 0]

EmptyMap == <<>>
Put(map, k, v) == [x \in DOMAIN map \cup {k} |-> IF x = k THEN v ELSE map[x]]
Delete(map, keys) == [x \in DOMAIN map \ keys |-> map[x]]

new_ui_context ==
    [layers |-> <<>>, layout |-> Nil,
     triggers |-> EmptyMap, uid_base_occurences |-> EmptyMap,
     uid_frame |-> EmptyMap, frame_triggers |-> <<>>,
     hover_uid |-> uid_zero, press_uid |-> uid_zero]

\* the package variables current_frame, mouse_pressed, mouse_released at
\* program start (the maps are empty)
NewGlobals ==
    [current_frame |-> 0, mouse_pressed |-> EmptyMap, mouse_released |-> EmptyMap]

NotInitialized == "ui context not initialized"

\* the outcome of a method: the context after it, the panic if any, and
\* the image returned
Outcome(ctx, panic, image) == [ctx |-> ctx, panic |-> panic, image |-> image]

\* mutant: the destination is pushed on the layers of the frame before
start_frame_kept(ctx, dst) ==
    Outcome([ctx EXCEPT !.layers = Append(@, dst)], "none", Nil)

start_frame(ctx, dst) ==
    Outcome([ctx EXCEPT !.layers = <<dst>>], "none", Nil)

set_layout(ctx, layout) == Outcome([ctx EXCEPT !.layout = layout], "none", Nil)

Top(ctx) == ctx.layers[Len(ctx.layers)]

push(ctx, x, y, w, h, layout) ==
    IF Len(ctx.layers) = 0 THEN Outcome(ctx, NotInitialized, Nil)
    ELSE Outcome([ctx EXCEPT
                    !.layers = Append(@, SubImage(Top(ctx), Rect(x, y, x + w, y + h))),
                    !.layout = layout], "none", Nil)

pop(ctx) ==
    Outcome([ctx EXCEPT
                !.layers = IF Len(@) > 0 THEN SubSeq(@, 1, Len(@) - 1) ELSE @,
                !.layout = Nil], "none", Nil)

\* grid_layout.layout: the cell, and the layout with the next cell current
GridFull(l) == l.current = l.rows * l.columns

GridCell(l, src) ==
    IF GridFull(l) THEN ZR
    ELSE Rect(src.x0 + (l.current % l.columns) * ((src.x1 - src.x0) \div l.columns),
              src.y0 + (l.current \div l.columns) * ((src.y1 - src.y0) \div l.rows),
              src.x0 + (l.current % l.columns) * ((src.x1 - src.x0) \div l.columns)
                     + ((src.x1 - src.x0) \div l.columns),
              src.y0 + (l.current \div l.columns) * ((src.y1 - src.y0) \div l.rows)
                     + ((src.y1 - src.y0) \div l.rows))

GridNext(l) == IF GridFull(l) THEN l ELSE [l EXCEPT !.current = @ + 1]

next(ctx) ==
    IF Len(ctx.layers) = 0 THEN Outcome(ctx, NotInitialized, Nil)
    ELSE IF ctx.layout = Nil THEN Outcome(ctx, "none", Top(ctx))
    ELSE Outcome([ctx EXCEPT !.layout = GridNext(@)], "none",
                 IF Empty(GridCell(ctx.layout, Top(ctx))) THEN Top(ctx)
                 ELSE SubImage(Top(ctx), GridCell(ctx.layout, Top(ctx))))

\* ---- cmd/003-imgui: uids, triggers and the end of a frame ----

\* a map read: the stored value, or the zero value for a missing key
Get(map, k, zero) == IF k \in DOMAIN map THEN map[k] ELSE zero

mouse_just_pressed(g, button) == Get(g.mouse_pressed, button, 0) = g.current_frame

mouse_just_released(g, button) == Get(g.mouse_released, button, 0) = g.current_frame

cursor_within(cursor, rect) ==
    /\ cursor[1] >= rect.x0
    /\ cursor[2] >= rect.y0
    /\ cursor[1] < rect.x1
    /\ cursor[2] < rect.y1

button_mode_activate_on_click_release == 0
button_mode_activate_on_click == 1
button_mode_activate_on_release == 2

\* button_behavior_t: the mode, and for each callback whether it is non-nil
ZeroBehavior ==
    [mode |-> 0, on_enter |-> FALSE, on_press |-> FALSE, on_exit |-> FALSE,
     on_activate |-> FALSE, on_release |-> FALSE]

\* the zero trigger_t
ZeroTrigger == [uid |-> uid_zero, bounds |-> ZR, behavior |-> ZeroBehavior]

\* ui_context_t.uid called for the call site pc in frame now: the uid, and
\* the context that remembers it
uid(ctx, pc, now) ==
    [uid |-> [base |-> pc, id |-> Get(ctx.uid_base_occurences, pc, 0)],
     ctx |-> [ctx EXCEPT
                !.uid_frame = Put(@, [base |-> pc,
                                      id |-> Get(ctx.uid_base_occurences, pc, 0)], now),
                !.uid_base_occurences = Put(@, pc, Get(ctx.uid_base_occurences, pc, 0) + 1)]]

push_trigger(ctx, u, bounds, behavior) ==
    [ctx EXCEPT !.frame_triggers =
        Append(@, [uid |-> u, bounds |-> bounds, behavior |-> behavior])]

\* button, past the uid it took: the image from next, then the trigger
ButtonDrawn(u, nx, behavior) ==
    IF nx.panic # "none" THEN nx
    ELSE Outcome(push_trigger(nx.ctx, u, nx.image, behavior), "none", Nil)

ButtonWithUid(a, behavior) == ButtonDrawn(a.uid, next(a.ctx), behavior)

button(ctx, behavior, pc, now) == ButtonWithUid(uid(ctx, pc, now), behavior)

\* the loop over frame_triggers: the last trigger under the cursor
Hits(triggers, cursor) ==
    { i \in 1..Len(triggers) : cursor_within(cursor, triggers[i].bounds) }

Hovered_first(triggers, cursor) ==
    IF Hits(triggers, cursor) = {} THEN ZeroTrigger
    ELSE triggers[CHOOSE i \in Hits(triggers, cursor) :
                    \A j \in Hits(triggers, cursor) : j >= i]

Hovered(triggers, cursor) ==
    IF Hits(triggers, cursor) = {} THEN ZeroTrigger
    ELSE triggers[CHOOSE i \in Hits(triggers, cursor) :
                    \A j \in Hits(triggers, cursor) : j <= i]

\* a block of end_frame gives the context it leaves and the callbacks it
\* called, in order
Ran(ctx, events) == [ctx |-> ctx, events |-> events]

Fired(name, set, u) == IF set THEN << <<name, u>> >> ELSE <<>>

\* the hover block
HoverChange(ctx, prev, nxt, hovered_trigger) ==
    Ran([ctx EXCEPT !.hover_uid = hovered_trigger.uid,
                    !.triggers = IF hovered_trigger.uid \in DOMAIN @ THEN @
                                 ELSE Put(@, hovered_trigger.uid, hovered_trigger)],
        Fired("on_exit", prev.behavior.on_exit, prev.uid)
            \o Fired("on_enter", nxt.behavior.on_enter, nxt.uid))

HoverBlock(ctx, hovered_trigger) ==
    IF hovered_trigger.uid = ctx.hover_uid THEN Ran(ctx, <<>>)
    ELSE HoverChange(ctx,
                     IF ctx.hover_uid # uid_zero
                     THEN Get(ctx.triggers, ctx.hover_uid, ZeroTrigger)
                     ELSE ZeroTrigger,
                     Get(ctx.triggers, hovered_trigger.uid, hovered_trigger),
                     hovered_trigger)

\* the press block
Pressed(ctx, trigger, hovered_trigger) ==
    Ran([ctx EXCEPT !.press_uid = hovered_trigger.uid],
        Fired("on_press", trigger.behavior.on_press, trigger.uid)
            \o Fired("on_activate",
                     trigger.behavior.mode = button_mode_activate_on_click
                         /\ trigger.behavior.on_activate, trigger.uid))

PressBlock(ctx, hovered_trigger, cursor_over_trigger, just_pressed) ==
    IF cursor_over_trigger /\ just_pressed
    THEN Pressed(ctx, Get(ctx.triggers, hovered_trigger.uid, ZeroTrigger),
                 hovered_trigger)
    ELSE Ran(ctx, <<>>)

\* the release block
Released(ctx, trigger, cursor) ==
    Ran([ctx EXCEPT !.press_uid = uid_zero],
        Fired("on_release", trigger.behavior.on_release, trigger.uid)
            \o Fired("on_activate",
                     (trigger.behavior.mode = button_mode_activate_on_release
                        \/ (trigger.behavior.mode = button_mode_activate_on_click_release
                              /\ cursor_within(cursor, trigger.bounds)))
                         /\ trigger.behavior.on_activate, trigger.uid))

ReleaseBlock(ctx, just_released, cursor) ==
    IF just_released /\ Get(ctx.triggers, ctx.press_uid, ZeroTrigger).uid # uid_zero
    THEN Released(ctx, Get(ctx.triggers, ctx.press_uid, ZeroTrigger), cursor)
    ELSE Ran(ctx, <<>>)

stale_uid_frames == 5

StaleUids(ctx, now) ==
    { u \in DOMAIN ctx.uid_frame : now - ctx.uid_frame[u] >= stale_uid_frames }

gc(ctx, now) ==
    [ctx EXCEPT !.uid_frame = Delete(@, StaleUids(ctx, now)),
                !.triggers = Delete(@, StaleUids(ctx, now))]

\* end_frame, block after block; each takes the context the one before left
AfterRelease(c, before, now) == Ran(gc(c.ctx, now), before \o c.events)

AfterPress(b, before, g, cursor) ==
    AfterRelease(ReleaseBlock(b.ctx, mouse_just_released(g, "Left"), cursor),
                 before \o b.events, g.current_frame)

AfterHover(a, hovered_trigger, cursor_over_trigger, g, cursor) ==
    AfterPress(PressBlock(a.ctx, hovered_trigger, cursor_over_trigger,
                          mouse_just_pressed(g, "Left")),
               a.events, g, cursor)

end_frame_counting(ctx, g, cursor) ==
    AfterHover(HoverBlock([ctx EXCEPT !.frame_triggers = <<>>],
                          Hovered(ctx.frame_triggers, cursor)),
               Hovered(ctx.frame_triggers, cursor),
               Hits(ctx.frame_triggers, cursor) # {}, g, cursor)

end_frame(ctx, g, cursor) ==
    AfterHover(HoverBlock([ctx EXCEPT !.uid_base_occurences = EmptyMap,
                                      !.frame_triggers = <<>>],
                          Hovered(ctx.frame_triggers, cursor)),
               Hovered(ctx.frame_triggers, cursor),
               Hits(ctx.frame_triggers, cursor) # {}, g, cursor)


VARIABLES
    mesh,               \* game.mesh, loaded once
    proj_matrix,        \* context.proj_matrix
    view_matrix,        \* context.view_matrix
    viewport,           \* context.viewport
    drawn_triangles,    \* context.drawn_triangles
    clip_space_points,  \* context.clip_space_points
    screen_triangles,   \* context.screen_triangles
    vertices,           \* context.vertices
    indices,            \* context.indices
    target,             \* the arguments of target.DrawTriangles of this frame
    pc,                 \* the next step of game.Draw
    last,               \* the step taken last, with what it read or logged
    probe,              \* a pure function applied to drawn inputs
    camera,             \* game.camera
    cycle,              \* Game.cycle of the 000 demo
    ui,                 \* ctx, the ui_context_t of the 003 demo
    globals             \* current_frame, mouse_pressed, mouse_released (003)

vars == <<mesh, proj_matrix, view_matrix, viewport, drawn_triangles,
          clip_space_points, screen_triangles, vertices, indices, target,
          pc, last, probe, camera, cycle, ui, globals>>

NoTarget == [vertices |-> <<>>, indices |-> <<>>, drawn |-> FALSE]

\* game.Draw up to push_mesh: a fresh context, its viewport and matrices
FreshContext(v, p) ==
    /\ viewport = set_viewport(0, 0, game_width, game_height)
    /\ proj_matrix = p
    /\ view_matrix = v
    /\ drawn_triangles = 0
    /\ clip_space_points = <<>>
    /\ screen_triangles = <<>>
    /\ vertices = <<>>
    /\ indices = <<>>

Init ==
    /\ mesh \in Meshes
    /\ \E v \in Views, p \in Projs : FreshContext(v, p)
    /\ target = NoTarget
    /\ pc = "push_mesh"
    /\ last = [op |-> "new"]
    /\ probe = <<>>
    /\ camera = NewCamera
    /\ cycle = 0
    /\ ui = new_ui_context
    /\ globals = NewGlobals

PushMeshDone(r) ==
    /\ clip_space_points' = r.clip_space_points
    /\ screen_triangles' = r.screen_triangles
    /\ last' = [op |-> "push_mesh", steps |-> r.steps]

PushMesh ==
    /\ pc = "push_mesh"
    /\ PushMeshDone(push_mesh(proj_matrix, view_matrix, viewport,
                               clip_space_points, screen_triangles, mesh))
    /\ pc' = "sort_triangles"
    /\ UNCHANGED <<mesh, proj_matrix, view_matrix, viewport, drawn_triangles,
                   vertices, indices, target, probe, camera, cycle, ui, globals>>

SortTriangles ==
    /\ pc = "sort_triangles"
    /\ screen_triangles' = sort_triangles(screen_triangles)
    /\ last' = [op |-> "sort_triangles", before |-> screen_triangles]
    /\ pc' = "draw_triangles"
    /\ UNCHANGED <<mesh, proj_matrix, view_matrix, viewport, drawn_triangles,
                   clip_space_points, vertices, indices, target, probe, camera, cycle, ui, globals>>

\* target.DrawTriangles(ctx.vertices, ctx.indices, ...) and the statistics
Submit(a) ==
    /\ target' = [vertices |-> a.vertices, indices |-> a.indices, drawn |-> TRUE]
    /\ drawn_triangles' = DrawnTriangles(a.indices)

DrawTriangles ==
    /\ pc = "draw_triangles"
    /\ Submit(Assemble(screen_triangles, vertices, indices, texture))
    /\ clip_space_points' = <<>>
    /\ screen_triangles' = <<>>
    /\ vertices' = <<>>
    /\ indices' = <<>>
    /\ last' = [op |-> "draw_triangles", before |-> screen_triangles]
    /\ pc' = "done"
    /\ UNCHANGED <<mesh, proj_matrix, view_matrix, viewport, probe, camera, cycle, ui, globals>>

\* the next call of game.Draw: a new context, the camera's view matrix
NextFrame ==
    /\ pc = "done"
    /\ \E v \in Views :
        /\ viewport' = set_viewport(0, 0, game_width, game_height)
        /\ proj_matrix' = proj_matrix
        /\ view_matrix' = v
    /\ drawn_triangles' = 0
    /\ clip_space_points' = <<>>
    /\ screen_triangles' = <<>>
    /\ vertices' = <<>>
    /\ indices' = <<>>
    /\ target' = NoTarget
    /\ last' = [op |-> "new"]
    /\ pc' = "push_mesh"
    /\ UNCHANGED <<mesh, probe, camera, cycle, ui, globals>>

Next == PushMesh \/ SortTriangles \/ DrawTriangles \/ NextFrame

Spec == Init /\ [][Next]_vars

(***************************************************************************)
(* The context on its own: push_mesh, sort_triangles and draw_triangles    *)
(* called in any order on one context, push_mesh with any mesh.  A call of *)
(* push_mesh is allowed while the clip-space buffer holds at most          *)
(* MaxBuffered points.                                                     *)
(***************************************************************************)
MaxBuffered == 12

CtxMeshes ==
    { UnitMesh, LayerMesh(<<0>>), LayerMesh(<<1, 2>>), LayerMesh(<<3, 1>>) }

InitContext ==
    /\ mesh \in CtxMeshes
    /\ \E v \in Views, p \in Projs : FreshContext(v, p)
    /\ target = NoTarget
    /\ pc = "context"
    /\ last = [op |-> "new"]
    /\ probe = <<>>
    /\ camera = NewCamera
    /\ cycle = 0
    /\ ui = new_ui_context
    /\ globals = NewGlobals

CtxPushMesh ==
    /\ pc = "context"
    /\ Len(clip_space_points) <= MaxBuffered
    /\ \E m \in CtxMeshes :
        /\ mesh' = m
        /\ PushMeshDone(push_mesh(proj_matrix, view_matrix, viewport,
                                   clip_space_points, screen_triangles, m))
    /\ UNCHANGED <<proj_matrix, view_matrix, viewport, drawn_triangles,
                   vertices, indices, target, pc, probe, camera, cycle, ui, globals>>

CtxSortTriangles ==
    /\ pc = "context"
    /\ screen_triangles' = sort_triangles(screen_triangles)
    /\ last' = [op |-> "sort_triangles", before |-> screen_triangles]
    /\ UNCHANGED <<mesh, proj_matrix, view_matrix, viewport, drawn_triangles,
                   clip_space_points, vertices, indices, target, pc, probe, camera, cycle, ui, globals>>

CtxDrawTriangles ==
    /\ pc = "context"
    /\ Submit(Assemble(screen_triangles, vertices, indices, texture))
    /\ clip_space_points' = <<>>
    /\ screen_triangles' = <<>>
    /\ vertices' = <<>>
    /\ indices' = <<>>
    /\ last' = [op |-> "draw_triangles", before |-> screen_triangles]
    /\ UNCHANGED <<mesh, proj_matrix, view_matrix, viewport, pc, probe, camera, cycle, ui, globals>>

NextContext == CtxPushMesh \/ CtxSortTriangles \/ CtxDrawTriangles

SpecContext == InitContext /\ [][NextContext]_vars

(***************************************************************************)
(* The game loop: game.Update and game.Draw in any interleaving, Update    *)
(* with any button, cursor and key state.  An Update is taken while it     *)
(* leaves the yaw within MaxTurn of its start and the position within      *)
(* MaxWalk steps of its start.                                             *)
(***************************************************************************)
MaxTurn == 1
MaxWalk == 1

CursorXs == {0, 100}
CursorYs == {0, 200}
Cursors == { c \in CursorXs \X CursorYs : c # <<0, 200>> }

\* the directional keys held: forward, back, right, left
KeyStates ==
    { <<FALSE, FALSE, FALSE, FALSE>>, <<TRUE, FALSE, FALSE, FALSE>>,
      <<FALSE, TRUE, FALSE, FALSE>>, <<FALSE, FALSE, TRUE, FALSE>>,
      <<FALSE, FALSE, FALSE, TRUE>>, <<TRUE, FALSE, TRUE, FALSE>>,
      <<TRUE, TRUE, TRUE, TRUE>> }

Inputs ==
    { [pressed |-> b, cx |-> c[1], cy |-> c[2],
       forward_key |-> k[1], back_key |-> k[2],
       right_key |-> k[3], left_key |-> k[4]] :
        b \in BOOLEAN, c \in Cursors, k \in KeyStates }

Within(a, b, r) == fLe(fSub(a, b), I(r)) /\ fLe(fSub(b, a), I(r))
Apart(a, b) == IF fLt(a, b) THEN fSub(b, a) ELSE fSub(a, b)

InBounds(cam) ==
    /\ Within(cam.yaw, NewCamera.yaw, MaxTurn)
    /\ fLe(fAdd(fAdd(Apart(cam.pos[1], NewCamera.pos[1]),
                      Apart(cam.pos[2], NewCamera.pos[2])),
                 Apart(cam.pos[3], NewCamera.pos[3])), I(MaxWalk))

InitGame ==
    /\ mesh = UnitMesh
    /\ \E p \in Projs : FreshContext(ZeroMat4, p)
    /\ target = NoTarget
    /\ pc = "game"
    /\ last = [op |-> "new", dragged |-> FALSE]
    /\ probe = <<>>
    /\ camera = NewCamera
    /\ cycle = 0
    /\ ui = new_ui_context
    /\ globals = NewGlobals

Updated(in, cam) ==
    /\ InBounds(cam)
    /\ camera' = cam
    /\ last' = [op |-> "Update", pressed |-> in.pressed,
                dragged |-> last.dragged \/ (in.pressed /\ camera.dragging)]

\* game.Update; the context of the Draw before it, a local variable of
\* game.Draw, and what that Draw submitted are gone
GameUpdate ==
    /\ pc = "game"
    /\ \E in \in Inputs : Updated(in, Update(camera, in))
    /\ view_matrix' = ZeroMat4
    /\ drawn_triangles' = 0
    /\ target' = NoTarget
    /\ UNCHANGED <<mesh, proj_matrix, viewport, clip_space_points,
                   screen_triangles, vertices, indices, pc, probe, cycle, ui, globals>>

\* game.Draw (main.go 551-591): a new context, the view matrix chosen,
\* push_mesh, sort_triangles, draw_triangles
DrawWith(view) ==
    /\ view_matrix' = view
    /\ Submit(Assemble(
           sort_triangles(
               push_mesh(proj_matrix, view,
                         set_viewport(0, 0, game_width, game_height),
                         <<>>, <<>>, mesh).screen_triangles),
           <<>>, <<>>, texture))
    /\ last' = [op |-> "Draw", view |-> view, camera_view |-> camera.view_matrix,
                dragged |-> last.dragged]

GameDraw ==
    /\ pc = "game"
    /\ viewport' = set_viewport(0, 0, game_width, game_height)
    /\ DrawWith(DrawView(camera))
    /\ clip_space_points' = <<>>
    /\ screen_triangles' = <<>>
    /\ vertices' = <<>>
    /\ indices' = <<>>
    /\ UNCHANGED <<mesh, proj_matrix, pc, probe, camera, cycle, ui, globals>>

NextGame == GameUpdate \/ GameDraw

SpecGame == InitGame /\ [][NextGame]_vars

(***************************************************************************)
(* Startup: main loads the mesh text with load_obj and panics on an error; *)
(* the 001 demo then draws the mesh.  The texts are up to MaxLines lines.  *)
(***************************************************************************)
MaxLines == 3

LineV == <<"v", "sp", "1", "sp", "2", "sp", "3", "nl">>
LineVBad == <<"v", "sp", "1", "sp", "x", "sp", "3", "nl">>
LineVT == <<"v", "t", "sp", "0", "sp", "1", "nl">>
LineVTBad == <<"v", "t", "sp", "0", "sp", "x", "nl">>
LineF ==
    <<"f", "sp", "1", "/", "1", "sp", "1", "/", "1", "sp", "1", "/", "1", "nl">>
LineFBad ==
    <<"f", "sp", "1", "/", "x", "sp", "1", "/", "1", "sp", "1", "/", "1", "nl">>
LineFZero ==
    <<"f", "sp", "0", "/", "1", "sp", "1", "/", "1", "sp", "1", "/", "1", "nl">>
LineFOver ==
    <<"f", "sp", "1", "/", "1", "sp", "2", "/", "1", "sp", "1", "/", "1", "nl">>
LineF000 == <<"f", "sp", "1", "sp", "1", "sp", "1", "nl">>
LineVN == <<"v", "n", "sp", "1", "sp", "2", "sp", "3", "nl">>
LineComment == <<"#", "sp", "B", "nl">>

Lines ==
    { LineV, LineVBad, LineVT, LineVTBad, LineF, LineFBad, LineFZero,
      LineFOver, LineF000, LineVN, LineComment }

RECURSIVE Concat(_, _)
Concat(lines, i) ==
    IF i > Len(lines) THEN <<>> ELSE lines[i] \o Concat(lines, i + 1)

Demos == {"000", "001"}

InitLoad ==
    /\ mesh = NoMesh
    /\ \E p \in Projs : FreshContext(DefaultLookAt, p)
    /\ target = NoTarget
    /\ pc = "main"
    /\ last = [op |-> "new"]
    /\ probe = <<>>
    /\ camera = NewCamera
    /\ cycle = 0
    /\ ui = new_ui_context
    /\ globals = NewGlobals

\* main up to ebiten.RunGame: the mesh loaded, or the panic
MainLoaded(demo, lines, out) ==
    /\ probe' = [fn |-> "load_obj", demo |-> demo, lines |-> lines, out |-> out]
    /\ mesh' = IF out.err = "nil" THEN out.mesh ELSE mesh
    /\ pc' = IF out.err # "nil" THEN "panic"
             ELSE IF demo = "001" THEN "push_mesh" ELSE "running 000"
    /\ last' = [op |-> "main"]

Main ==
    /\ pc = "main"
    /\ \E demo \in Demos, lines \in SeqsUpTo(Lines, MaxLines) :
        MainLoaded(demo, lines,
                   IF demo = "001" THEN load_obj(Concat(lines, 1))
                                   ELSE load_obj_000(Concat(lines, 1)))
    /\ UNCHANGED <<proj_matrix, view_matrix, viewport, drawn_triangles,
                   clip_space_points, screen_triangles, vertices, indices,
                   target, camera, cycle, ui, globals>>

\* push_mesh on the loaded mesh: a slice read outside its bounds panics
PushMeshPanics ==
    /\ pc = "push_mesh"
    /\ ~IndicesInRange(mesh)
    /\ pc' = "panic"
    /\ last' = [op |-> "push_mesh", panic |-> "index out of range"]
    /\ UNCHANGED <<mesh, proj_matrix, view_matrix, viewport, drawn_triangles,
                   clip_space_points, screen_triangles, vertices, indices,
                   target, probe, camera, cycle, ui, globals>>

PushLoadedMesh == pc = "push_mesh" /\ IndicesInRange(mesh) /\ PushMesh

NextLoad ==
    Main \/ PushLoadedMesh \/ PushMeshPanics \/ SortTriangles \/ DrawTriangles

SpecLoad == InitLoad /\ [][NextLoad]_vars

(***************************************************************************)
(* The 000 demo: Update advances the cycle, Draw runs the pipeline on the  *)
(* mesh main loaded and coloured.                                          *)
(***************************************************************************)
MaxFaces == 2
MaxCycle == 2

Vertices000 ==
    << <<0, -1, -1>>, <<0, -1, 1>>, <<0, 1, 0>>, <<3, 0, 0>>, <<0, 0, 3>>,
       <<1, 0, 0>> >>

Faces000 ==
    { <<0, 1, 2>>, <<1, 0, 2>>, <<0, 1, 3>>, <<1, 0, 4>>, <<3, 4, 3>>,
      <<0, 0, 1>>, <<0, 1, 5>> }

\* rand.Float32() of main
Shades == {I(0), I(1)}

Triangles000 ==
    { [v1 |-> f[1], v2 |-> f[2], v3 |-> f[3], rgba |-> <<s, s, s, I(1)>>] :
        f \in Faces000, s \in Shades }

Meshes000 ==
    { [vertices |-> [i \in 1..Len(Vertices000) |->
                        [position |-> IV(Vertices000[i]),
                         color |-> <<I(0), I(0), I(0)>>]],
       triangles |-> t] : t \in SeqsUpTo(Triangles000, MaxFaces) }

Init000 ==
    /\ mesh \in Meshes000
    /\ FreshContext(ZeroMat4, ZeroMat4)
    /\ target = NoTarget
    /\ pc = "000"
    /\ last = [op |-> "new"]
    /\ probe = <<>>
    /\ camera = NewCamera
    /\ cycle = 0
    /\ ui = new_ui_context
    /\ globals = NewGlobals

Update000 ==
    /\ pc = "000"
    /\ cycle < MaxCycle
    /\ cycle' = cycle + 1
    /\ last' = [op |-> "Update"]
    /\ UNCHANGED <<mesh, proj_matrix, view_matrix, viewport, drawn_triangles,
                   clip_space_points, screen_triangles, vertices, indices,
                   target, pc, probe, camera, ui, globals>>

Game000Drawn(d) ==
    /\ last' = [op |-> "Draw", steps |-> d.steps,
                screen_triangles |-> d.screen_triangles,
                screen_vertices |-> d.screen_vertices,
                vertices |-> d.out.vertices, indices |-> d.out.indices]
    /\ target' = [vertices |-> d.out.vertices, indices |-> d.out.indices,
                  drawn |-> TRUE]

Game000Draw ==
    /\ pc = "000"
    /\ Game000Drawn(Draw000(mesh, cycle, game_width, game_height))
    /\ UNCHANGED <<mesh, proj_matrix, view_matrix, viewport, drawn_triangles,
                   clip_space_points, screen_triangles, vertices, indices,
                   pc, probe, camera, cycle, ui, globals>>

Next000 == Update000 \/ Game000Draw

Spec000 == Init000 /\ [][Next000]_vars

(***************************************************************************)
(* The ui context of the 003 demo under any order of its methods; a panic  *)
(* ends the program.                                                       *)
(***************************************************************************)
MaxDepth == 3

Screen == Rect(0, 0, 800, 600)
Images == {Screen, Rect(0, 0, 16, 16)}
Areas ==
    { <<0, 0, 400, 300>>, <<100, 100, 50, 50>>, <<200, 150, 400, 300>>,
      <<900, 0, 10, 10>> }
Layouts == {Nil, [columns |-> 2, rows |-> 1, current |-> 0]}

InitUI ==
    /\ mesh = NoMesh
    /\ FreshContext(ZeroMat4, ZeroMat4)
    /\ target = NoTarget
    /\ pc = "ui"
    /\ last = [op |-> "new", started |-> FALSE]
    /\ probe = <<>>
    /\ camera = NewCamera
    /\ cycle = 0
    /\ ui = new_ui_context
    /\ globals = NewGlobals

\* a method called on ctx: its outcome, logged with the depth of the layer
\* stack it found
Called(op, started, out) ==
    /\ ui' = out.ctx
    /\ pc' = IF out.panic = "none" THEN "ui" ELSE "panic"
    /\ last' = [op |-> op, depth |-> Len(ui.layers), panic |-> out.panic,
                image |-> out.image, started |-> started]
    /\ UNCHANGED <<mesh, proj_matrix, view_matrix, viewport, drawn_triangles,
                   clip_space_points, screen_triangles, vertices, indices,
                   target, probe, camera, cycle, globals>>

StartFrame ==
    /\ pc = "ui"
    /\ \E dst \in Images : Called("start_frame", TRUE, start_frame(ui, dst))

SetLayout ==
    /\ pc = "ui"
    /\ \E l \in Layouts : Called("set_layout", last.started, set_layout(ui, l))

Push ==
    /\ pc = "ui"
    /\ Len(ui.layers) < MaxDepth
    /\ \E a \in Areas, l \in Layouts :
        Called("push", last.started, push(ui, a[1], a[2], a[3], a[4], l))

Pop == pc = "ui" /\ Called("pop", last.started, pop(ui))

NextImage == pc = "ui" /\ Called("next", last.started, next(ui))

NextUI == StartFrame \/ SetLayout \/ Push \/ Pop \/ NextImage

SpecUI == InitUI /\ [][NextUI]_vars

\* ---- cmd/003-imgui: Update and Draw, frame after frame ----

MaxFrame == 8

\* the call sites of button in Draw, as their program counters
SiteA == 1
SiteB == 2
Sites == {SiteA, SiteB}

\* the behavior each call site hands to button
Behavior(site) ==
    IF site = SiteA
    THEN [mode |-> button_mode_activate_on_click_release, on_enter |-> TRUE,
          on_press |-> TRUE, on_exit |-> TRUE, on_activate |-> TRUE,
          on_release |-> TRUE]
    ELSE [mode |-> button_mode_activate_on_click, on_enter |-> TRUE,
          on_press |-> TRUE, on_exit |-> FALSE, on_activate |-> TRUE,
          on_release |-> FALSE]

\* the buttons a frame draws, by call site, in order
Scripts == { <<>>, <<SiteA, SiteA>>, <<SiteA, SiteA, SiteB>> }

\* ebiten.CursorPosition during the frame
FrameCursors == { <<100, 100>>, <<900, 100>> }

DrawLayout == [columns |-> 2, rows |-> 1, current |-> 0]

RECURSIVE DrawButtons(_, _, _, _)
DrawButtons(out, script, i, now) ==
    IF i > Len(script) \/ out.panic # "none" THEN out
    ELSE DrawButtons(button(out.ctx, Behavior(script[i]), script[i], now),
                     script, i + 1, now)

\* Draw up to end_frame
DrawnFrame(ctx, script, now) ==
    DrawButtons(set_layout(start_frame(ctx, Screen).ctx, DrawLayout), script, 1, now)

InitFrames ==
    /\ mesh = NoMesh
    /\ FreshContext(ZeroMat4, ZeroMat4)
    /\ target = NoTarget
    /\ pc = "frame"
    /\ last = [op |-> "new", down |-> FALSE, over |-> uid_zero,
               pressed_edge |-> FALSE, released_edge |-> FALSE]
    /\ probe = <<>>
    /\ camera = NewCamera
    /\ cycle = 0
    /\ ui = new_ui_context
    /\ globals = NewGlobals

Edges == {"none", "pressed", "released"}

\* game.Update of 003: the edge inpututil reports in this tick. The log
\* keeps whether the button is down, the edges seen since the last Draw and
\* the trigger the button went down over.
Update003 ==
    /\ pc = "frame"
    /\ globals.current_frame < MaxFrame
    /\ \E edge \in Edges :
        /\ edge = "pressed" => ~last.down
        /\ edge = "released" => last.down
        /\ globals' = [globals EXCEPT
                !.mouse_pressed = IF edge = "pressed"
                                  THEN Put(@, "Left", globals.current_frame) ELSE @,
                !.mouse_released = IF edge = "released"
                                   THEN Put(@, "Left", globals.current_frame) ELSE @]
        /\ last' = [op |-> "Update",
                    down |-> IF edge = "none" THEN last.down ELSE edge = "pressed",
                    over |-> last.over,
                    pressed_edge |-> last.pressed_edge \/ edge = "pressed",
                    released_edge |-> last.released_edge \/ edge = "released"]
    /\ UNCHANGED <<mesh, proj_matrix, view_matrix, viewport, drawn_triangles,
                   clip_space_points, screen_triangles, vertices, indices,
                   target, pc, probe, camera, cycle, ui>>

\* game.Draw of 003 with the frame drawn and the frame ended
DrawEnded(script, cursor, drawn, ended) ==
    /\ ui' = ended.ctx
    /\ globals' = [globals EXCEPT !.current_frame = @ + 1]
    /\ last' = [op |-> "Draw",
                down |-> last.down,
                over |-> IF ~last.down THEN uid_zero
                         ELSE IF last.pressed_edge
                         THEN Hovered(drawn.frame_triggers, cursor).uid
                         ELSE last.over,
                pressed_edge |-> FALSE,
                released_edge |-> FALSE,
                frame |-> globals.current_frame,
                script |-> script,
                cursor |-> cursor,
                pushed |-> drawn.frame_triggers,
                counted |-> drawn.uid_base_occurences,
                hover_before |-> ui.hover_uid,
                press_before |-> ui.press_uid,
                had_pressed |-> last.pressed_edge,
                had_released |-> last.released_edge,
                just_pressed |-> mouse_just_pressed(globals, "Left"),
                just_released |-> mouse_just_released(globals, "Left"),
                events |-> ended.events]

DrawFrame(script, cursor, out) ==
    IF out.panic # "none"
    THEN /\ pc' = "panic"
         /\ UNCHANGED <<ui, globals, last>>
    ELSE /\ pc' = pc
         /\ DrawEnded(script, cursor, out.ctx, end_frame(out.ctx, globals, cursor))

Draw003 ==
    /\ pc = "frame"
    /\ globals.current_frame < MaxFrame
    /\ \E script \in Scripts, cursor \in FrameCursors :
        DrawFrame(script, cursor, DrawnFrame(ui, script, globals.current_frame))
    /\ UNCHANGED <<mesh, proj_matrix, view_matrix, viewport, drawn_triangles,
                   clip_space_points, screen_triangles, vertices, indices,
                   target, probe, camera, cycle>>

NextFrame003 == Update003 \/ Draw003

SpecFrames == InitFrames /\ [][NextFrame003]_vars

(***************************************************************************)
(* game.Update alone, with the run of pressed Updates it belongs to: the   *)
(* cursor, pitch and yaw the run started from, and whether Clamp cut the   *)
(* pitch during it.  A released Update starts from itself.                 *)
(***************************************************************************)
\* the y of the cursor moves by the pitch limit, 157 hundredths
DragCursors == {0, 100} \X {0, 157}

\* the button, the cursor and the forward key (W or Up); a released Update
\* reads no key
DragKeys == { <<b, k>> \in BOOLEAN \X BOOLEAN : b \/ ~k }

DragInputs ==
    { [pressed |-> bk[1], cx |-> c[1], cy |-> c[2],
       forward_key |-> bk[2], back_key |-> FALSE,
       right_key |-> FALSE, left_key |-> FALSE] :
        bk \in DragKeys, c \in DragCursors }

RunFrom(in, cam) ==
    [x0 |-> in.cx, y0 |-> in.cy, yaw0 |-> cam.yaw, pitch0 |-> cam.pitch,
     clamped |-> FALSE, first |-> TRUE]

\* pitch + dy lies outside the range Clamp keeps
Cut(in, cam) ==
    Clamp(fAdd(cam.pitch, Q(in.cy - cam.drag_y, 100)), fNeg(PiHalf), PiHalf)
        # fAdd(cam.pitch, Q(in.cy - cam.drag_y, 100))

RunOf(in, cam, run) ==
    IF in.pressed /\ cam.dragging
    THEN [run EXCEPT !.clamped = @ \/ Cut(in, cam), !.first = FALSE]
    ELSE RunFrom(in, cam)

InitDrag ==
    /\ mesh = UnitMesh
    /\ FreshContext(ZeroMat4, ZeroMat4)
    /\ target = NoTarget
    /\ pc = "Update"
    /\ last = [op |-> "new"]
    /\ probe = <<>>
    /\ camera = NewCamera
    /\ cycle = 0
    /\ ui = new_ui_context
    /\ globals = NewGlobals

DragUpdated(in, cam) ==
    /\ InBounds(cam)
    /\ camera' = cam
    /\ last' = [op |-> "Update", in |-> in,
                away |-> in.cx # camera.drag_x /\ in.cy # camera.drag_y,
                run |-> RunOf(in, camera,
                              IF last.op = "new" THEN RunFrom(in, camera)
                              ELSE last.run)]

UpdateAlone ==
    /\ pc = "Update"
    /\ \E in \in DragInputs : DragUpdated(in, Update(camera, in))
    /\ UNCHANGED <<mesh, proj_matrix, view_matrix, viewport, drawn_triangles,
                   clip_space_points, screen_triangles, vertices, indices,
                   target, pc, probe, cycle, ui, globals>>

SpecDrag == InitDrag /\ [][UpdateAlone]_vars

(***************************************************************************)
(* interpolate_vertex applied to drawn vertices and weights.  The vertices *)
(* are finite, as the clip-space vertices of a mesh are; a weight may be   *)
(* any float, NaN and the infinities included (barycentric divides).       *)
(***************************************************************************)
ProbeVertices ==
    { Vertex(<<I(1), I(2), I(3), I(4)>>, <<I(0), I(1)>>),
      Vertex(<<Q(-1, 2), I(0), I(5), I(1)>>, <<Q(1, 3), I(2)>>),
      Vertex(<<I(7), I(-3), I(0), I(0)>>, <<I(1), I(0)>>),
      Vertex(Zero4, Zero2) }

ProbeWeights ==
    { <<I(1), I(0), I(0)>>, <<I(0), I(1), I(0)>>, <<I(0), I(0), I(1)>>,
      <<Q(1, 3), Q(1, 3), Q(1, 3)>>, <<Q(1, 2), Q(1, 2), I(0)>>,
      <<I(2), I(-1), I(3)>>, <<NaN, NaN, NaN>>, <<PosInf, I(0), fNeg(PosInf)>> }

InitInterp ==
    /\ mesh = UnitMesh
    /\ FreshContext(Ident4, Ident4)
    /\ target = NoTarget
    /\ pc = "push_mesh"
    /\ last = [op |-> "new"]
    /\ probe = <<>>
    /\ camera = NewCamera
    /\ cycle = 0
    /\ ui = new_ui_context
    /\ globals = NewGlobals

Interpolate ==
    /\ \E v1, v2, v3 \in ProbeVertices, f \in ProbeWeights :
        probe' = [fn |-> "interpolate_vertex", v1 |-> v1, v2 |-> v2, v3 |-> v3,
                  f |-> f, out |-> interpolate_vertex(v1, v2, v3, f)]
    /\ UNCHANGED <<mesh, proj_matrix, view_matrix, viewport, drawn_triangles,
                   clip_space_points, screen_triangles, vertices, indices,
                   target, pc, last, camera, cycle, ui, globals>>

SpecInterp == InitInterp /\ [][Interpolate]_vars

(***************************************************************************)
(* draw_triangles on its own.  DrawTriangles runs on screen_triangles as   *)
(* push_mesh and sort_triangles leave it for a mesh of a few triangles.    *)
(* AppendIndices is iteration k (from 0) of its loop as far as the index   *)
(* buffer goes: the buffer holds 3k entries when the iteration starts, and *)
(* the iteration appends TriangleIndices(3k).  The iterations near the end *)
(* of the uint16 range belong to a draw of more than 21845 triangles,      *)
(* whose buffers the model does not hold in a state.                       *)
(***************************************************************************)
\* the smallest number of triangles whose indices leave the uint16 range
WrapCount == Uint16Range \div 3 + 1

MaxSample == 4

SampleTriangles ==
    LET st == push_mesh(Ident4, Ident4,
                        set_viewport(0, 0, game_width, game_height),
                        <<>>, <<>>, LayerMesh(<<0, 1, 2, 1>>)).screen_triangles
    IN  { st[i] : i \in 1..Len(st) }

AssembleInputs ==
    { sort_triangles(q) : q \in SeqsUpTo(SampleTriangles, MaxSample) }

Iterations == (0..MaxSample) \cup ((WrapCount - 3)..(WrapCount - 1))

InitAssemble ==
    /\ mesh = LayerMesh(<<0, 1, 2, 1>>)
    /\ viewport = set_viewport(0, 0, game_width, game_height)
    /\ proj_matrix = Ident4
    /\ view_matrix = Ident4
    /\ drawn_triangles = 0
    /\ clip_space_points = <<>>
    /\ screen_triangles \in AssembleInputs
    /\ vertices = <<>>
    /\ indices = <<>>
    /\ target = NoTarget
    /\ pc = "draw_triangles"
    /\ last = [op |-> "new"]
    /\ probe = <<>>
    /\ camera = NewCamera
    /\ cycle = 0
    /\ ui = new_ui_context
    /\ globals = NewGlobals

AppendIndices ==
    /\ pc = "draw_triangles"
    /\ \E k \in Iterations :
        probe' = [fn |-> "append_indices", k |-> k, len |-> 3 * k,
                  out |-> TriangleIndices(3 * k)]
    /\ UNCHANGED <<mesh, proj_matrix, view_matrix, viewport, drawn_triangles,
                   clip_space_points, screen_triangles, vertices, indices,
                   target, pc, last, camera, cycle, ui, globals>>

NextAssemble == DrawTriangles \/ AppendIndices

SpecAssemble == InitAssemble /\ [][NextAssemble]_vars

(***************************************************************************)
(* Vocabulary of the properties                                            *)
(***************************************************************************)
PushLogged == last.op = "push_mesh"
Steps == last.steps
StepIds == 1..Len(last.steps)

\* p lies beyond frustum plane k: 1 x > w, 2 x < -w, 3 y > w, 4 y < -w,
\* 5 z > w, 6 z < -w
Beyond(p, k) ==
    LET c == p[(k + 1) \div 2]
    IN  IF k % 2 = 1 THEN fGt(c, p[4]) ELSE fLt(c, fNeg(p[4]))
PlaneIds == 1..6
BeyondSome(p) == \E k \in PlaneIds : Beyond(p, k)
AllBeyond(st, k) ==
    /\ Beyond(st.v1.position, k)
    /\ Beyond(st.v2.position, k)
    /\ Beyond(st.v3.position, k)
StrictlyInside(p) ==
    \A c \in 1..3 : fLt(fNeg(p[4]), p[c]) /\ fLt(p[c], p[4])
\* the vertex of mesh.triangles[i] as push_mesh is to read it
MeshVertex(i, n) ==
    LET t == mesh.triangles[i]
    IN  Vertex(clip_space_points[(IF n = 1 THEN t.p1 ELSE IF n = 2 THEN t.p2 ELSE t.p3) + 1],
               mesh.texcoords[(IF n = 1 THEN t.t1 ELSE IF n = 2 THEN t.t2 ELSE t.t3) + 1])
Cross3(a, b) ==
    << fSub(fMul(a[2], b[3]), fMul(a[3], b[2])),
       fSub(fMul(a[3], b[1]), fMul(a[1], b[3])),
       fSub(fMul(a[1], b[2]), fMul(a[2], b[1])) >>
\* the x, y, z of the three clip-space positions lie on one line
Collinear(st) ==
    LET p1 == Vec3Of(st.v1.position)
    IN  Cross3(VSub(Vec3Of(st.v2.position), p1), VSub(Vec3Of(st.v3.position), p1))
            = <<I(0), I(0), I(0)>>
\* exactly one vertex lies beyond exactly one plane, the other two lie
\* strictly inside all six
OneCutOff(st) ==
    \E f \in {<<1, 2, 3>>, <<2, 3, 1>>, <<3, 1, 2>>} :
        LET ps == <<st.v1.position, st.v2.position, st.v3.position>>
        IN  /\ Cardinality({k \in PlaneIds : Beyond(ps[f[1]], k)}) = 1
            /\ StrictlyInside(ps[f[2]])
            /\ StrictlyInside(ps[f[3]])

(***************************************************************************)
(* C1.  push_mesh hands a triangle to clip_triangle_and_push exactly when  *)
(* one of its three clip-space vertices has x < -w, x > w, y < -w, y > w,  *)
(* z < -w or z > w; every other triangle goes to push_triangle once, with  *)
(* its three vertices (position and texcoord) unchanged and in order, and  *)
(* passes through neither the clipper nor the interpolator.                *)
(***************************************************************************)
C1_ClipIffOutOfBounds ==
    PushLogged =>
        /\ Len(Steps) = Len(mesh.triangles)
        /\ \A i \in StepIds :
            LET st == Steps[i]
                a == MeshVertex(i, 1)
                b == MeshVertex(i, 2)
                c == MeshVertex(i, 3)
            IN  /\ st.clipped <=>
                      \/ BeyondSome(a.position)
                      \/ BeyondSome(b.position)
                      \/ BeyondSome(c.position)
                /\ ~st.clipped =>
                      /\ Len(st.pushes) = 1
                      /\ st.pushes[1].a = a
                      /\ st.pushes[1].b = b
                      /\ st.pushes[1].c = c
                      /\ st.pushes[1].idx = <<>>
                      /\ Len(st.passes) = 0
                /\ st.clipped =>
                      \A k \in 1..Len(st.pushes) : st.pushes[k].idx # <<>>

\* one push_mesh took both paths, and the fast path appended a triangle
C1_Witness ==
    /\ PushLogged
    /\ \E i, j \in StepIds :
        /\ Steps[i].clipped
        /\ Len(Steps[i].pushes) > 0
        /\ ~Steps[j].clipped
        /\ Len(Steps[j].pushes[1].out) = 1

(***************************************************************************)
(* C2.  A triangle whose three clip-space vertices all lie beyond the same *)
(* one of the six frustum planes leaves sutherland_hodgman_3d with an      *)
(* empty polygon, and clip_triangle_and_push pushes no triangle.           *)
(***************************************************************************)
C2_BeyondOnePlaneYieldsNothing ==
    PushLogged =>
        \A i \in StepIds : \A k \in PlaneIds :
            AllBeyond(Steps[i], k) =>
                /\ Steps[i].clipped
                /\ Len(Steps[i].points) = 0
                /\ Len(Steps[i].pushes) = 0
                /\ Len(Steps) = 1 => Len(screen_triangles) = 0

\* one push_mesh met a triangle beyond each of the six planes, one of them
\* after an earlier pass had cut it into a polygon
C2_Witness ==
    /\ PushLogged
    /\ \A k \in PlaneIds : \E i \in StepIds : AllBeyond(Steps[i], k)
    /\ \E i \in StepIds :
        /\ \E k \in PlaneIds : AllBeyond(Steps[i], k)
        /\ Len(Steps[i].passes) > 1
        /\ Len(Steps[i].passes[1]) > 3

(***************************************************************************)
(* C3.  clip_triangle_and_push fan-triangulates the clipped polygon from   *)
(* point 0: a polygon of n >= 3 points gives n-2 calls of push_triangle,   *)
(* the one of loop index i built from the points 0, i-1, i; a triangle     *)
(* with one vertex beyond one plane and two strictly inside gives a        *)
(* polygon of 4 points and 2 calls.  (The vertex built for a point has the *)
(* point as its position unless the triangle's x, y, z are collinear.)     *)
(***************************************************************************)
C3_FanTriangulation ==
    PushLogged =>
        \A s \in StepIds :
            LET st == Steps[s]
                n == Len(st.points)
            IN  st.clipped =>
                /\ Len(st.pushes) = IF n >= 3 THEN n - 2 ELSE 0
                /\ \A i \in 2..(n - 1) :
                    LET call == st.pushes[i - 1]
                    IN  /\ call.idx = <<0, i - 1, i>>
                        /\ ~Collinear(st) =>
                            /\ call.a.position = st.points[1]
                            /\ call.b.position = st.points[i]
                            /\ call.c.position = st.points[i + 1]
                /\ OneCutOff(st) => n = 4 /\ Len(st.pushes) = 2

\* one push_mesh clipped a triangle with one vertex cut off (two calls) and
\* a triangle whose polygon has more than four points
C3_Witness ==
    /\ PushLogged
    /\ \E s, t \in StepIds :
        /\ Steps[s].clipped /\ OneCutOff(Steps[s]) /\ Len(Steps[s].pushes) = 2
        /\ Steps[t].clipped /\ Len(Steps[t].points) > 4 /\ ~Collinear(Steps[t])

(***************************************************************************)
(* C4.  The polygon sutherland_hodgman_3d holds after each plane pass, and *)
(* the polygon it returns, has 0 or at least 3 points; once a pass leaves  *)
(* 0 points no further plane is processed and the result is empty.         *)
(***************************************************************************)
C4_PolygonSizes ==
    PushLogged =>
        \A s \in StepIds :
            LET st == Steps[s]
                np == Len(st.passes)
            IN  st.clipped =>
                /\ np >= 1 /\ np <= 6
                /\ \A j \in 1..np :
                    /\ Len(st.passes[j]) \notin {1, 2}
                    /\ Len(st.passes[j]) = 0 => j = np
                /\ np < 6 => Len(st.passes[np]) = 0
                /\ st.points = st.passes[np]
                /\ Len(st.points) \notin {1, 2}

\* one push_mesh saw the clipper stop early after a pass that had followed
\* a pass leaving a polygon, and saw it run all six passes
C4_Witness ==
    /\ PushLogged
    /\ \E s, t \in StepIds :
        /\ Steps[s].clipped
        /\ Len(Steps[s].passes) \in 2..5
        /\ Len(Steps[s].passes[Len(Steps[s].passes)]) = 0
        /\ Steps[t].clipped
        /\ Len(Steps[t].passes) = 6
        /\ Len(Steps[t].points) >= 3

(***************************************************************************)
(* C5.  interpolate_vertex with the weights (1,0,0), (0,1,0), (0,0,1)      *)
(* returns exactly the first, second, third vertex (position and           *)
(* texcoord), and with any weights (u,v,w) it returns u*A + v*B + w*C in   *)
(* every component of position and texcoord.                               *)
(***************************************************************************)
Interpolated == probe # <<>> /\ probe.fn = "interpolate_vertex"
Blend(f, a, b, c) == fAdd(fAdd(fMul(f[1], a), fMul(f[2], b)), fMul(f[3], c))

C5_InterpolationLinear ==
    Interpolated =>
        /\ probe.f = <<I(1), I(0), I(0)>> => probe.out = probe.v1
        /\ probe.f = <<I(0), I(1), I(0)>> => probe.out = probe.v2
        /\ probe.f = <<I(0), I(0), I(1)>> => probe.out = probe.v3
        /\ \A c \in 1..4 :
            probe.out.position[c] =
                Blend(probe.f, probe.v1.position[c], probe.v2.position[c],
                      probe.v3.position[c])
        /\ \A c \in 1..2 :
            probe.out.texcoord[c] =
                Blend(probe.f, probe.v1.texcoord[c], probe.v2.texcoord[c],
                      probe.v3.texcoord[c])

\* the weights (0,0,1) on three vertices that differ in every attribute
C5_Witness ==
    /\ Interpolated
    /\ probe.f = <<I(0), I(0), I(1)>>
    /\ probe.v3.position # probe.v1.position
    /\ probe.v3.position # probe.v2.position
    /\ probe.v3.texcoord # probe.v1.texcoord
    /\ probe.v3.texcoord # probe.v2.texcoord
    /\ probe.out = probe.v3

(***************************************************************************)
(* C6.  push_triangle discards a triangle (appends nothing to              *)
(* screen_triangles) if and only if its signed area                        *)
(* (x2-x1)(y3-y1) - (x3-x1)(y2-y1), on the x, y after the divide by w, is  *)
(* <= 0.  A triangle that is counter-clockwise on the screen (y grows      *)
(* downward there, so its signed area is negative) is discarded and the    *)
(* same triangle with two vertices swapped survives; a signed area of      *)
(* exactly 0 is discarded.                                                 *)
(***************************************************************************)
DivW(v, c) == fDiv(v.position[c], v.position[4])

SignedArea(a, b, c) ==
    fSub(fMul(fSub(DivW(b, 1), DivW(a, 1)), fSub(DivW(c, 2), DivW(a, 2))),
         fMul(fSub(DivW(c, 1), DivW(a, 1)), fSub(DivW(b, 2), DivW(a, 2))))

CallIds == { sk \in StepIds \X (1..6) : sk[2] <= Len(Steps[sk[1]].pushes) }
CallAt(sk) == Steps[sk[1]].pushes[sk[2]]
CallArea(sk) == SignedArea(CallAt(sk).a, CallAt(sk).b, CallAt(sk).c)
Survives(a, b, c) == Len(push_triangle(viewport, a, b, c)) = 1

C6_CullIffAreaNotPositive ==
    PushLogged =>
        /\ \A sk \in CallIds :
            /\ Len(CallAt(sk).out) \in {0, 1}
            /\ Len(CallAt(sk).out) = 0 <=> fLe(CallArea(sk), I(0))
            /\ CallArea(sk) = I(0) => Len(CallAt(sk).out) = 0
            /\ fLt(CallArea(sk), I(0)) =>
                /\ Len(CallAt(sk).out) = 0
                /\ Survives(CallAt(sk).b, CallAt(sk).a, CallAt(sk).c)
                /\ Survives(CallAt(sk).a, CallAt(sk).c, CallAt(sk).b)
                /\ Survives(CallAt(sk).c, CallAt(sk).b, CallAt(sk).a)
        /\ Len(screen_triangles) =
               Cardinality({ sk \in CallIds : ~fLe(CallArea(sk), I(0)) })

\* one push_mesh pushed a triangle of positive area (kept), one of negative
\* area (discarded) and one of area 0 (discarded)
C6_Witness ==
    /\ PushLogged
    /\ \E p, n, z \in CallIds :
        /\ fGt(CallArea(p), I(0)) /\ Len(CallAt(p).out) = 1
        /\ fLt(CallArea(n), I(0)) /\ Len(CallAt(n).out) = 0
        /\ CallArea(z) = I(0) /\ Len(CallAt(z).out) = 0

(***************************************************************************)
(* C7.  After sort_triangles, screen_triangles is a permutation of its     *)
(* content before the call and is ordered by distance descending (for      *)
(* every i < j, distance[i] >= distance[j]), each distance being the       *)
(* arithmetic mean of the triangle's three mapped z values; the depths     *)
(* 0.2, 0.5, 0.1 come out in the order 0.5, 0.2, 0.1.                      *)
(***************************************************************************)
Sorted == last.op = "sort_triangles"
Dist(i) == screen_triangles[i].distance
MeanZ(t) ==
    fDiv(fAdd(fAdd(t.v1.position[3], t.v2.position[3]), t.v3.position[3]), I(3))
Count(seq, x) == Cardinality({ i \in 1..Len(seq) : seq[i] = x })
IsPermutation(a, b) ==
    /\ Len(a) = Len(b)
    /\ \A i \in 1..Len(a) : Count(a, a[i]) = Count(b, a[i])
Dists(seq) == [i \in 1..Len(seq) |-> seq[i].distance]

C7_SortedDescending ==
    Sorted =>
        /\ IsPermutation(screen_triangles, last.before)
        /\ \A i, j \in 1..Len(screen_triangles) : i < j => fGe(Dist(i), Dist(j))
        /\ \A i \in 1..Len(screen_triangles) :
            Dist(i) = MeanZ(screen_triangles[i])
        /\ Dists(last.before) = <<Q(1, 5), Q(1, 2), Q(1, 10)>> =>
            Dists(screen_triangles) = <<Q(1, 2), Q(1, 5), Q(1, 10)>>

\* what the sort does achieve: a permutation, the triangles whose distance
\* is a number between two neighbouring NaN distances in descending order
NoNaNBetween(i, j) == \A k \in i..j : ~IsNaN(Dist(k))

C7_SortedBetweenNaN ==
    Sorted =>
        /\ IsPermutation(screen_triangles, last.before)
        /\ \A i, j \in 1..Len(screen_triangles) :
            i < j /\ NoNaNBetween(i, j) => fGe(Dist(i), Dist(j))
        /\ \A i \in 1..Len(screen_triangles) :
            Dist(i) = MeanZ(screen_triangles[i])
        /\ Dists(last.before) = <<Q(1, 5), Q(1, 2), Q(1, 10)>> =>
            Dists(screen_triangles) = <<Q(1, 2), Q(1, 5), Q(1, 10)>>

\* the sort reordered the depths 0.2, 0.5, 0.1
C7_Witness ==
    /\ Sorted
    /\ Dists(last.before) = <<Q(1, 5), Q(1, 2), Q(1, 10)>>
    /\ Dists(screen_triangles) = <<Q(1, 2), Q(1, 5), Q(1, 10)>>

\* the sort was given a triangle whose distance is NaN
C7_NaNWitness ==
    /\ Sorted
    /\ \E i \in 1..Len(screen_triangles) : IsNaN(Dist(i))
    /\ \E i \in 1..Len(screen_triangles) : ~IsNaN(Dist(i))

(***************************************************************************)
(* C8.  For a mesh with the single triangle (-1,-1,0), (1,-1,0), (0,1,0),  *)
(* an identity view matrix, an identity projection and an 800x600          *)
(* viewport, push_mesh, clip_to_ndc and ndc_to_screen produce the screen   *)
(* coordinates (0,0), (800,0), (400,600) for the three vertices: the       *)
(* mapping 300*y + 300 does not flip the y axis.  (The claim as written    *)
(* has (0,600), (800,600), (400,0): C8_AsClaimed.)                         *)
(***************************************************************************)
UnitCase ==
    /\ PushLogged
    /\ mesh = UnitMesh
    /\ view_matrix = Ident4
    /\ proj_matrix = Ident4
    /\ viewport.w = 800
    /\ viewport.h = 600

ScreenXY(v) == <<v.position[1], v.position[2]>>

ScreenXYs ==
    << ScreenXY(screen_triangles[1].v1), ScreenXY(screen_triangles[1].v2),
       ScreenXY(screen_triangles[1].v3) >>

C8_UnitTriangleScreen ==
    UnitCase =>
        /\ Len(screen_triangles) = 1
        /\ ScreenXYs = << <<I(0), I(0)>>, <<I(800), I(0)>>, <<I(400), I(600)>> >>

C8_AsClaimed ==
    UnitCase =>
        /\ Len(screen_triangles) = 1
        /\ ScreenXYs = << <<I(0), I(600)>>, <<I(800), I(600)>>, <<I(400), I(0)>> >>

\* push_mesh has mapped the unit triangle to the screen
C8_Witness ==
    /\ UnitCase
    /\ Len(Steps) = 1
    /\ ~Steps[1].clipped
    /\ Len(screen_triangles) = 1

(***************************************************************************)
(* C9.  For any number n of triangles in screen_triangles, the index array *)
(* assembled by draw_triangles has length 3n and holds 0, 1, ..., 3n-1     *)
(* (triangle k gets 3k, 3k+1, 3k+2), the vertex array has length 3n, and   *)
(* every index is a 16-bit unsigned value.                                 *)
(***************************************************************************)
Drawn == last.op = "draw_triangles" /\ target.drawn
Appended3 == probe # <<>> /\ probe.fn = "append_indices"

C9_IndicesSequential ==
    /\ Drawn =>
        /\ Len(target.indices) = 3 * Len(last.before)
        /\ Len(target.vertices) = 3 * Len(last.before)
        /\ \A k \in 1..Len(target.indices) :
            /\ target.indices[k] = k - 1
            /\ target.indices[k] \in 0..(Uint16Range - 1)
    /\ Appended3 =>
        /\ probe.out = <<3 * probe.k, 3 * probe.k + 1, 3 * probe.k + 2>>
        /\ \A i \in 1..3 : probe.out[i] \in 0..(Uint16Range - 1)

\* what the code does achieve: entry k of the index array is k modulo 2^16
C9_IndicesModulo ==
    /\ Drawn =>
        /\ Len(target.indices) = 3 * Len(last.before)
        /\ Len(target.vertices) = 3 * Len(last.before)
        /\ \A k \in 1..Len(target.indices) : target.indices[k] = k - 1
    /\ Appended3 =>
        /\ \A i \in 1..3 : probe.out[i] = (3 * probe.k + i - 1) % Uint16Range

\* draw_triangles assembled several triangles, and the loop reached the
\* iteration whose first index is the last uint16
C9_Witness ==
    /\ Drawn
    /\ Len(last.before) = MaxSample
    /\ Appended3
    /\ probe.out[1] = Uint16Range - 1

(***************************************************************************)
(* C10.  After every call of draw_triangles the four working buffers of    *)
(* the context (clip_space_points, screen_triangles, vertices, indices)    *)
(* have length zero, and drawn_triangles is the number of triangles that   *)
(* were in screen_triangles when the call started.                         *)
(***************************************************************************)
C10_BuffersResetAndCounted ==
    last.op = "draw_triangles" =>
        /\ Len(clip_space_points) = 0
        /\ Len(screen_triangles) = 0
        /\ Len(vertices) = 0
        /\ Len(indices) = 0
        /\ drawn_triangles = Len(last.before)

\* draw_triangles drew several triangles out of a context whose buffers
\* had been filled by push_mesh
C10_Witness ==
    /\ last.op = "draw_triangles"
    /\ Len(last.before) >= 2
    /\ Len(target.vertices) = 3 * Len(last.before)
    /\ drawn_triangles = Len(last.before)
    /\ Len(clip_space_points) = 0

(***************************************************************************)
(* C11.  For every call of push_mesh(mesh) on a context, in any sequence   *)
(* of push_mesh and draw_triangles calls, the clip-space position used for *)
(* a triangle vertex with point index k is projection*view applied to      *)
(* mesh.points[k] of that same mesh.                                       *)
(***************************************************************************)
ClipPointOf(k) ==
    Mul4x1(Mul4(proj_matrix, view_matrix), Vec4Of(mesh.points[k + 1], I(1)))

C11_IndexCorrespondence ==
    PushLogged =>
        /\ Len(Steps) = Len(mesh.triangles)
        /\ \A i \in StepIds :
            /\ Steps[i].v1.position = ClipPointOf(mesh.triangles[i].p1)
            /\ Steps[i].v2.position = ClipPointOf(mesh.triangles[i].p2)
            /\ Steps[i].v3.position = ClipPointOf(mesh.triangles[i].p3)

\* what the code does achieve: the correspondence holds for a push_mesh
\* that finds the clip-space buffer empty
C11_FirstPushCorresponds ==
    PushLogged /\ Len(clip_space_points) = Len(mesh.points) =>
        \A i \in StepIds :
            /\ Steps[i].v1.position = ClipPointOf(mesh.triangles[i].p1)
            /\ Steps[i].v2.position = ClipPointOf(mesh.triangles[i].p2)
            /\ Steps[i].v3.position = ClipPointOf(mesh.triangles[i].p3)

\* a second push_mesh ran on a context that had not been drawn since the
\* first, with a mesh of other points
C11_Witness ==
    /\ PushLogged
    /\ Len(clip_space_points) > Len(mesh.points)
    /\ clip_space_points[1] # ClipPointOf(0)
    /\ Len(Steps) > 0

(***************************************************************************)
(* C12.  The camera controller has two states, idle and dragging: after    *)
(* every Update, camera.dragging is true if and only if the left pointer   *)
(* button was pressed during that Update (idle to dragging on a press,     *)
(* dragging to idle on a release), for any sequence of button states.      *)
(***************************************************************************)
UpdateLogged == last.op = "Update"

C12_DraggingIffPressed ==
    /\ camera.dragging \in BOOLEAN
    /\ UpdateLogged => (camera.dragging <=> last.pressed)

\* the button was held over two Updates and the second one dragged
C12_Witness ==
    /\ UpdateLogged
    /\ last.pressed
    /\ last.dragged
    /\ camera.dragging

\* the button was released after a drag
C12_ReleaseWitness ==
    /\ UpdateLogged
    /\ ~last.pressed
    /\ last.dragged
    /\ ~camera.dragging

(***************************************************************************)
(* C13.  From the initial pose, after any sequence of Update calls with    *)
(* any cursor positions, button states and key states, camera.pitch lies   *)
(* in [-pi/2, pi/2]; yaw is never clamped (an Update leaves it or moves it *)
(* by exactly the cursor's dx / 100).                                      *)
(***************************************************************************)
PitchInRange == fLe(fNeg(PiHalf), camera.pitch) /\ fLe(camera.pitch, PiHalf)

CursorDeltas == { a - b : a, b \in CursorXs }

YawUnclamped ==
    \E d \in CursorDeltas : camera'.yaw = fSub(camera.yaw, Q(d, 100))

C13_PitchClampedYawFree == []PitchInRange /\ [][YawUnclamped]_vars

\* the pitch has been stopped at the upper limit, the yaw lies beyond pi
C13_Witness ==
    /\ UpdateLogged
    /\ camera.pitch = PiHalf
    /\ fGt(camera.yaw, Pi)

(***************************************************************************)
(* C14.  An Update during which the pointer button is not pressed changes  *)
(* no camera field other than dragging, whichever keys are held and        *)
(* wherever the cursor is; the view matrix and the position change only in *)
(* an Update that starts in the dragging state with the button pressed.    *)
(***************************************************************************)
ReleasedUpdateKeeps ==
    last'.op = "Update" /\ ~last'.pressed =>
        camera' = [camera EXCEPT !.dragging = camera'.dragging]

ViewAndPosChangeInDrag ==
    camera'.view_matrix # camera.view_matrix \/ camera'.pos # camera.pos =>
        last'.op = "Update" /\ last'.pressed /\ camera.dragging

C14_OnlyDragMutates == [][ReleasedUpdateKeeps /\ ViewAndPosChangeInDrag]_vars

\* an Update without the button ran on a camera that a drag had moved
C14_Witness ==
    /\ UpdateLogged
    /\ ~last.pressed
    /\ camera.pos # NewCamera.pos
    /\ camera.view_matrix # ZeroMat4
    /\ camera.drag_x # 0

(***************************************************************************)
(* C15.  camera.view_matrix stays the all-zero matrix (determinant 0) from *)
(* startup until the first Update that starts in the dragging state with   *)
(* the button pressed; every Draw before that uses the default look-at     *)
(* (eye (0,10,-10), center (0,10,10), up (0,1,0)) as view matrix, every    *)
(* Draw after it uses camera.view_matrix, in any interleaving.             *)
(***************************************************************************)
DrawLogged == last.op = "Draw"

C15_ViewFallback ==
    /\ ~last.dragged =>
        /\ camera.view_matrix = ZeroMat4
        /\ Det(camera.view_matrix) = I(0)
    /\ DrawLogged =>
        view_matrix = IF last.dragged THEN camera.view_matrix ELSE DefaultLookAt

\* a Draw after the first drag used the camera's matrix
C15_Witness ==
    /\ DrawLogged
    /\ last.dragged
    /\ view_matrix = camera.view_matrix
    /\ view_matrix # DefaultLookAt
    /\ target.drawn

\* a Draw before the first drag, after Updates, used the default look-at
C15_FallbackWitness ==
    /\ DrawLogged
    /\ ~last.dragged
    /\ camera.dragging
    /\ view_matrix = DefaultLookAt

(***************************************************************************)
(* Loading                                                                 *)
(***************************************************************************)
LoadLogged == probe # <<>> /\ probe.fn = "load_obj"

\* lines with a record type neither loader knows, or with a numeric field
\* that is no number
BadLines == {LineVBad, LineVTBad, LineFBad, LineVN}

HasBadLine(lines) == \E i \in 1..Len(lines) : lines[i] \in BadLines

Rejected == probe.out.err # "nil" /\ probe.out.mesh = NilMesh /\ pc = "panic"

\* C16: whenever the mesh text holds an unknown record type or a vertex,
\* texcoord or face record with an unparsable numeric field, load_obj returns
\* an error and no mesh and main panics, so the pipeline never runs; this for
\* the loader of every demo variant.
C16_BadTextRejected ==
    LoadLogged =>
        /\ HasBadLine(probe.lines) => Rejected
        /\ probe.out.err # "nil" => Rejected

\* the 000 loader returns a mesh and no error for a text with a "vn" record
C16_Witness ==
    /\ LoadLogged
    /\ probe.demo = "000"
    /\ probe.lines = <<LineV, LineVN>>
    /\ probe.out.err = "nil"
    /\ Len(probe.out.mesh.vertices) = 1

\* what C16 says holds of the 001 loader
C16_RejectedBy001 ==
    LoadLogged /\ probe.demo = "001" =>
        /\ HasBadLine(probe.lines) => Rejected
        /\ probe.out.err # "nil" => Rejected

\* C17: every mesh load_obj returns without error has every point index
\* below length(points) and every texcoord index below length(texcoords);
\* a face index that is 0 or exceeds the records read is a load-time error
\* and never reaches the draw step as an out-of-range index.
C17_IndicesInRange ==
    /\ LoadLogged /\ probe.demo = "001" /\ probe.out.err = "nil"
        => IndicesInRange(probe.out.mesh)
    /\ ~(last.op = "push_mesh" /\ "panic" \in DOMAIN last)

\* a face with index 0 loads as index 65535 and push_mesh panics on it
C17_Witness ==
    /\ LoadLogged
    /\ probe.demo = "001"
    /\ probe.lines = <<LineV, LineVT, LineFZero>>
    /\ probe.out.err = "nil"
    /\ probe.out.mesh.triangles[1].p1 = Uint16Range - 1
    /\ pc = "panic"
    /\ last.op = "push_mesh"

(***************************************************************************)
(* The 000 pipeline                                                        *)
(***************************************************************************)
Draw000Logged == pc = "000" /\ last.op = "Draw"

OutOfBounds000(s) == BeyondSome(s.c0) \/ BeyondSome(s.c1) \/ BeyondSome(s.c2)

Ndc000(c, k) == fDiv(c[k], c[4])

Area000(s) ==
    fSub(fMul(fSub(Ndc000(s.c1, 1), Ndc000(s.c0, 1)),
              fSub(Ndc000(s.c2, 2), Ndc000(s.c0, 2))),
         fMul(fSub(Ndc000(s.c2, 1), Ndc000(s.c0, 1)),
              fSub(Ndc000(s.c1, 2), Ndc000(s.c0, 2))))

Kept000Ids == { i \in 1..Len(last.steps) : last.steps[i].screen_triangles # <<>> }

\* C18: in the 000 pipeline a triangle with a clip-space vertex out of
\* bounds is discarded without clipping, adding nothing to screen_triangles,
\* screen_vertices, vertices or indices; every triangle kept has its three
\* vertices in bounds and a positive signed area.
C18_OutOfBoundsDiscarded ==
    Draw000Logged =>
        /\ \A i \in 1..Len(last.steps) :
            /\ OutOfBounds000(last.steps[i]) =>
                /\ last.steps[i].screen_triangles = <<>>
                /\ last.steps[i].screen_vertices = <<>>
            /\ i \in Kept000Ids =>
                /\ ~OutOfBounds000(last.steps[i])
                /\ fGt(Area000(last.steps[i]), I(0))
                /\ Len(last.steps[i].screen_vertices) = 3
        /\ Len(last.screen_triangles) = Cardinality(Kept000Ids)
        /\ Len(last.screen_vertices) = 3 * Cardinality(Kept000Ids)
        /\ Len(last.vertices) = 3 * Cardinality(Kept000Ids)
        /\ Len(last.indices) = 3 * Cardinality(Kept000Ids)

\* a Draw of two triangles: the first has one vertex out of bounds and two
\* in bounds and is discarded, the second is kept
C18_Witness ==
    /\ Draw000Logged
    /\ Len(last.steps) = 2
    /\ BeyondSome(last.steps[1].c2)
    /\ ~BeyondSome(last.steps[1].c0)
    /\ ~BeyondSome(last.steps[1].c1)
    /\ last.steps[1].screen_triangles = <<>>
    /\ Kept000Ids = {2}
    /\ Len(last.vertices) = 3

\* a triangle in bounds with a signed area that is not positive is discarded
C18_CulledWitness ==
    /\ Draw000Logged
    /\ Len(last.steps) = 2
    /\ ~OutOfBounds000(last.steps[1])
    /\ fLt(Area000(last.steps[1]), I(0))
    /\ ~OutOfBounds000(last.steps[2])
    /\ Area000(last.steps[2]) = I(0)
    /\ Kept000Ids = {}

(***************************************************************************)
(* The ui context                                                          *)
(***************************************************************************)
UsesLayers == last.op \in {"push", "next"}

\* C19: push and next panic with "ui context not initialized" whenever the
\* layer stack is empty (before the first start_frame, or after pop has
\* removed every layer), which ends the program; after start_frame(dst)
\* the layer stack is exactly [dst], so that neither panics.
C19_PanicIffNoLayer ==
    /\ UsesLayers /\ last.depth = 0 =>
        last.panic = NotInitialized /\ pc = "panic"
    /\ UsesLayers /\ last.depth > 0 => last.panic = "none" /\ pc = "ui"
    /\ last.op = "start_frame" =>
        /\ Len(ui.layers) = 1
        /\ ui.layers[1] \in Images
        /\ last.panic = "none"
    /\ pc = "panic" => UsesLayers /\ last.depth = 0

\* next panics after start_frame and a pop that removed the last layer
C19_Witness ==
    /\ last.op = "next"
    /\ last.started
    /\ last.depth = 0
    /\ last.panic = NotInitialized
    /\ pc = "panic"

\* push panics before the first start_frame
C19_PushWitness ==
    /\ last.op = "push"
    /\ ~last.started
    /\ last.panic = NotInitialized

\* next on the only layer of a frame returns a cell of the grid layout
C19_NextWitness ==
    /\ last.op = "next"
    /\ last.depth = 1
    /\ last.panic = "none"
    /\ last.image = Rect(400, 0, 800, 600)

(***************************************************************************)
(* Clip-generated vertices                                                 *)
(***************************************************************************)
\* the weights clip_triangle_and_push computes for point k of step st
WeightsOf(st, k) ==
    barycentric(Vec3Of(st.v1.position), Vec3Of(st.v2.position),
                Vec3Of(st.v3.position), Vec3Of(st.points[k]))

\* C20: for every point p sutherland_hodgman_3d returns for a triangle whose
\* three clip-space x, y, z are not collinear, the weights
\* barycentric(p1, p2, p3, p.xyz) sum to 1 and interpolate_vertex with them
\* gives a position equal to p in x, y, z and w: the vertex keeps the
\* clipper's point, interpolated before the divide by w.
C20_ClipPointKept ==
    PushLogged =>
        \A s \in StepIds :
            Steps[s].clipped /\ ~Collinear(Steps[s]) =>
                \A k \in 1..Len(Steps[s].points) :
                    /\ fAdd(fAdd(WeightsOf(Steps[s], k)[1], WeightsOf(Steps[s], k)[2]),
                            WeightsOf(Steps[s], k)[3]) = I(1)
                    /\ interpolate_vertex(Steps[s].v1, Steps[s].v2, Steps[s].v3,
                                          WeightsOf(Steps[s], k)).position
                           = Steps[s].points[k]

\* a clipped triangle, not collinear, whose vertices differ in w, with a
\* point the clipper made (none of the three vertices) whose w is not 1 and
\* whose three weights are all positive
C20_Witness ==
    /\ PushLogged
    /\ \E s \in StepIds :
        /\ Steps[s].clipped
        /\ ~Collinear(Steps[s])
        /\ Steps[s].v1.position[4] # Steps[s].v2.position[4]
        /\ \E k \in 1..Len(Steps[s].points) :
            /\ Steps[s].points[k] \notin
                 {Steps[s].v1.position, Steps[s].v2.position, Steps[s].v3.position}
            /\ Steps[s].points[k][4] # I(1)
            /\ \A c \in 1..3 : fGt(WeightsOf(Steps[s], k)[c], I(0))

(***************************************************************************)
(* The clipper's intersections and points                                  *)
(***************************************************************************)
\* the polygon pass i of step st started with
PassInput(st, i) ==
    IF i = 1 THEN <<st.v1.position, st.v2.position, st.v3.position>>
    ELSE st.passes[i - 1]

\* the calls of plane.intersection in pass i of step st
PassCalls(st, i) == ClipRingCalls(clip_planes[i], PassInput(st, i), 1)

\* the plane equation at v, as a claim reads it: w - x, w + x, ...
PlaneValue(i, v) ==
    IF i % 2 = 1 THEN fSub(v[4], v[(i + 1) \div 2])
    ELSE fAdd(v[4], v[(i + 1) \div 2])

\* C21: in sutherland_hodgman_3d plane.intersection(s, e) is called only
\* for edges whose endpoints give different results for plane.test, and in
\* every such call the denominator normal . (e - s) is not zero, for every
\* triangle and each of the six planes.
C21_IntersectionDefined ==
    PushLogged =>
        \A s \in StepIds :
            Steps[s].clipped =>
                \A i \in 1..Len(Steps[s].passes) :
                    \A c \in 1..Len(PassCalls(Steps[s], i)) :
                        /\ fGt(PlaneValue(i, PassCalls(Steps[s], i)[c].s), I(0))
                             # fGt(PlaneValue(i, PassCalls(Steps[s], i)[c].e), I(0))
                        /\ IsFinite(PassCalls(Steps[s], i)[c].d)
                        /\ PassCalls(Steps[s], i)[c].d # I(0)

\* a pass with two intersections, one for an edge leaving the plane's front
\* and one for an edge entering it, of a triangle that is not collinear
C21_Witness ==
    /\ PushLogged
    /\ \E s \in StepIds :
        /\ Steps[s].clipped
        /\ ~Collinear(Steps[s])
        /\ \E i \in 1..Len(Steps[s].passes) :
            /\ Len(PassCalls(Steps[s], i)) = 2
            /\ fGt(PassCalls(Steps[s], i)[1].d, I(0))
            /\ fLt(PassCalls(Steps[s], i)[2].d, I(0))

\* the planes that cut step st: those whose pass made an intersection
CuttingPlanes(st) ==
    { i \in 1..Len(st.passes) : Len(PassCalls(st, i)) > 0 }

\* C22: every point of the polygon sutherland_hodgman_3d returns lies
\* inside the frustum, -w <= x <= w, -w <= y <= w, -w <= z <= w, for every
\* triangle: clipping against a later plane moves no point back outside an
\* earlier plane.
C22_PolygonInsideFrustum ==
    PushLogged =>
        \A s \in StepIds :
            Steps[s].clipped =>
                \A k \in 1..Len(Steps[s].points) :
                    \A c \in 1..3 :
                        /\ fLe(fNeg(Steps[s].points[k][4]), Steps[s].points[k][c])
                        /\ fLe(Steps[s].points[k][c], Steps[s].points[k][4])

\* a triangle cut by two planes, whose polygon has a point the clipper made
\* on the first of them
C22_Witness ==
    /\ PushLogged
    /\ \E s \in StepIds :
        /\ Steps[s].clipped
        /\ Cardinality(CuttingPlanes(Steps[s])) >= 2
        /\ \E i \in CuttingPlanes(Steps[s]) :
            /\ \E j \in CuttingPlanes(Steps[s]) : j > i
            /\ \E k \in 1..Len(Steps[s].points) :
                /\ PlaneValue(i, Steps[s].points[k]) = I(0)
                /\ Steps[s].points[k] \notin
                     {Steps[s].v1.position, Steps[s].v2.position,
                      Steps[s].v3.position}

\* the w of the three vertices of a call of push_triangle
CallWs(call) == <<call.a.position[4], call.b.position[4], call.c.position[4]>>

\* C23: every vertex whose position push_triangle divides by w has w > 0,
\* on the fast path and as a clip-generated vertex alike, so that the
\* perspective divide never divides by zero or by a negative w.
C23_DividesByPositiveW ==
    PushLogged =>
        \A sk \in CallIds : \A n \in 1..3 : fGt(CallWs(CallAt(sk))[n], I(0))

\* a call of push_triangle with a clip-generated vertex whose w is NaN
C23_Witness ==
    /\ PushLogged
    /\ \E sk \in CallIds :
        /\ Steps[sk[1]].clipped
        /\ IsNaN(CallAt(sk).a.position[4])

\* what C23 says holds of every triangle whose x, y, z are not collinear
C23_PositiveWUnlessCollinear ==
    PushLogged =>
        \A sk \in CallIds :
            ~(Steps[sk[1]].clipped /\ Collinear(Steps[sk[1]])) =>
                \A n \in 1..3 : fGt(CallWs(CallAt(sk))[n], I(0))

\* a call with clip-generated vertices that differ in w
C23_PositiveWitness ==
    /\ PushLogged
    /\ \E sk \in CallIds :
        /\ Steps[sk[1]].clipped
        /\ ~Collinear(Steps[sk[1]])
        /\ CallWs(CallAt(sk))[1] # CallWs(CallAt(sk))[2]

(***************************************************************************)
(* Dragging                                                                *)
(***************************************************************************)
RunLogged == last.op = "Update" /\ "run" \in DOMAIN last

\* C24: the first Update with the button pressed after an idle state only
\* enters the dragging state and records the cursor in drag_x, drag_y;
\* pitch, yaw, pos and view_matrix are unchanged by it, whatever the
\* distance of the cursor from the recorded drag_x, drag_y and whatever
\* keys are held.
C24_FirstPressOnlyArms ==
    [][last'.in.pressed /\ ~camera.dragging =>
          camera' = [camera EXCEPT !.dragging = TRUE,
                                   !.drag_x = last'.in.cx,
                                   !.drag_y = last'.in.cy]]_vars

\* a first pressed Update, after a drag and a release, with the cursor away
\* from the recorded position and the forward key held
C24_Witness ==
    /\ RunLogged
    /\ last.in.pressed
    /\ last.run.first
    /\ last.away
    /\ last.in.forward_key
    /\ camera.dragging
    /\ camera.view_matrix # ZeroMat4
    /\ camera.yaw = last.run.yaw0

\* C25: over an uninterrupted run of Updates with the button pressed, as
\* long as the pitch is never clamped, the total yaw change is -(x of the
\* cursor at the last Update minus x at the first pressed Update)/100 and
\* the total pitch change +(y at the last minus y at the first)/100;
\* cursor movement made while the button is released contributes nothing.
C25_TurnFollowsCursorDelta ==
    RunLogged =>
        /\ last.in.pressed /\ ~last.run.clamped =>
            /\ camera.yaw = fSub(last.run.yaw0, Q(last.in.cx - last.run.x0, 100))
            /\ camera.pitch = fAdd(last.run.pitch0, Q(last.in.cy - last.run.y0, 100))
        /\ ~last.in.pressed =>
            /\ camera.yaw = last.run.yaw0
            /\ camera.pitch = last.run.pitch0

\* a run of at least two pressed Updates that turned the camera both ways
C25_Witness ==
    /\ RunLogged
    /\ last.in.pressed
    /\ ~last.run.first
    /\ ~last.run.clamped
    /\ last.in.cx # last.run.x0
    /\ last.in.cy # last.run.y0
    /\ camera.yaw # last.run.yaw0
    /\ camera.pitch # last.run.pitch0

\* a released Update with the cursor away from the recorded position
C25_ReleasedWitness ==
    /\ RunLogged
    /\ ~last.in.pressed
    /\ last.away
    /\ camera.view_matrix # ZeroMat4

\* a run in which Clamp cut the pitch: the total is not the cursor's
C25_ClampedWitness ==
    /\ RunLogged
    /\ last.in.pressed
    /\ last.run.clamped
    /\ camera.pitch # fAdd(last.run.pitch0, Q(last.in.cy - last.run.y0, 100))

\* ---- cmd/003-imgui frames ----

FrameDrawn == last.op = "Draw"

\* how many of the calls before the i-th came from the i-th call's site
CallsBefore(script, i) ==
    Cardinality({ j \in 1..(i - 1) : script[j] = script[i] })

\* C26: in every frame the k-th call of uid from a call site (k from 0)
\* returns (call site, k), no two calls of the frame return the same uid,
\* and end_frame leaves no per-call-site counter, so that a frame that
\* repeats the calls of the one before gets the same uids
C26_UidIsSiteAndOccurrence ==
    FrameDrawn =>
        /\ Len(last.pushed) = Len(last.script)
        /\ \A i \in 1..Len(last.script) :
              last.pushed[i].uid = [base |-> last.script[i],
                                    id |-> CallsBefore(last.script, i)]
        /\ \A i, j \in 1..Len(last.pushed) :
              i # j => last.pushed[i].uid # last.pushed[j].uid
        /\ \A site \in DOMAIN last.counted :
              last.counted[site] = Cardinality({ i \in 1..Len(last.script) :
                                                    last.script[i] = site })
        /\ ui.uid_base_occurences = EmptyMap

\* a frame after the first one that calls button twice from one site and
\* once from another
C26_Witness ==
    /\ FrameDrawn
    /\ last.frame >= 1
    /\ last.script = <<SiteA, SiteA, SiteB>>
    /\ last.pushed[2].uid = [base |-> SiteA, id |-> 1]

\* C27: after every end_frame each uid with an entry in uid_frame or in
\* triggers was returned by uid() fewer than stale_uid_frames frames ago
C27_EntriesAreRecentUids ==
    FrameDrawn =>
        \A u \in DOMAIN ui.uid_frame \cup DOMAIN ui.triggers :
            /\ u.base \in Sites
            /\ u \in DOMAIN ui.uid_frame
            /\ last.frame - ui.uid_frame[u] < stale_uid_frames

\* the hover left a trigger for no trigger, as when the cursor leaves the
\* buttons
C27_Witness ==
    /\ FrameDrawn
    /\ last.hover_before # uid_zero
    /\ ui.hover_uid = uid_zero

\* what does hold: apart from the entry of triggers under uid_zero, the
\* entries are of uids returned fewer than stale_uid_frames frames ago
C27_RecentApartFromZero ==
    FrameDrawn =>
        /\ DOMAIN ui.triggers \subseteq DOMAIN ui.uid_frame \cup {uid_zero}
        /\ \A u \in DOMAIN ui.uid_frame :
              /\ u.base \in Sites
              /\ last.frame - ui.uid_frame[u] < stale_uid_frames
        /\ \A i \in 1..Len(last.pushed) :
              ui.uid_frame[last.pushed[i].uid] = last.frame

\* a uid not returned for stale_uid_frames frames has just lost its entries
C27_CollectedWitness ==
    /\ FrameDrawn
    /\ last.frame >= stale_uid_frames
    /\ DOMAIN ui.uid_frame = {}
    /\ uid_zero \in DOMAIN ui.triggers

\* C28: at the end of every frame press_uid is non-zero only if the left
\* button went down over that trigger and has not come up since, and after
\* a frame in which a release was observed press_uid is uid_zero
C28_PressUidIsHeldTrigger ==
    FrameDrawn =>
        /\ ui.press_uid # uid_zero => last.down /\ last.over = ui.press_uid
        /\ last.had_released => ui.press_uid = uid_zero

\* a release is observed while a trigger is pressed
C28_Witness ==
    /\ FrameDrawn
    /\ last.frame >= 1
    /\ last.had_released
    /\ last.press_before # uid_zero

\* what does hold: a release leaves press_uid set only when triggers has
\* no entry for it any more
C28_KeptOnlyWithoutEntry ==
    FrameDrawn /\ last.had_released /\ ui.press_uid # uid_zero =>
        ui.press_uid \notin DOMAIN ui.triggers

\* the release of a trigger whose entry is still there clears press_uid
C28_ClearedWitness ==
    /\ FrameDrawn
    /\ last.frame >= 1
    /\ last.had_released
    /\ last.press_before # uid_zero
    /\ ui.press_uid = uid_zero

IsHoverEvent(e) == e[1] \in {"on_exit", "on_enter"}

\* the triggers of the frame under the cursor, by their place in the draw
\* order
Under == { i \in 1..Len(last.pushed) :
            cursor_within(last.cursor, last.pushed[i].bounds) }

\* u is the uid of the top-most trigger under the cursor, or uid_zero
TopMost(u) ==
    \/ Under = {} /\ u = uid_zero
    \/ \E i \in Under : u = last.pushed[i].uid /\ \A j \in Under : j <= i

\* the callbacks a change of hover from prev to nxt owes
OwedOnChange(prev, nxt) ==
    (IF prev # uid_zero /\ Behavior(prev.base).on_exit
     THEN << <<"on_exit", prev>> >> ELSE <<>>)
    \o (IF nxt # uid_zero /\ Behavior(nxt.base).on_enter
        THEN << <<"on_enter", nxt>> >> ELSE <<>>)

\* C29: end_frame makes hover_uid the uid of the last trigger pushed this
\* frame whose bounds hold the cursor, or uid_zero; when that differs from
\* the hover_uid it found, on_exit of the previous trigger is called and
\* then on_enter of the new one, each once at most; when it is the same,
\* neither is called
C29_HoverIsTopMost ==
    FrameDrawn =>
        /\ TopMost(ui.hover_uid)
        /\ SelectSeq(last.events, IsHoverEvent) =
              IF ui.hover_uid = last.hover_before THEN <<>>
              ELSE OwedOnChange(last.hover_before, ui.hover_uid)

\* the cursor is over two triggers of the frame and the hover goes from one
\* trigger to another
C29_Witness ==
    /\ FrameDrawn
    /\ Cardinality(Under) >= 2
    /\ last.hover_before # uid_zero
    /\ ui.hover_uid # uid_zero
    /\ ui.hover_uid # last.hover_before
    /\ Len(SelectSeq(last.events, IsHoverEvent)) = 2

\* the hover stays on a trigger
C29_SameWitness ==
    /\ FrameDrawn
    /\ ui.hover_uid # uid_zero
    /\ ui.hover_uid = last.hover_before

Called003(name) == \E i \in 1..Len(last.events) : last.events[i][1] = name

\* C30: in every frame, the first included, mouse_just_pressed is true
\* during end_frame only if an Update saw a just-pressed edge since the
\* Draw before, mouse_just_released only if one saw a just-released edge,
\* and on_press, on_release, on_activate are not called without the edge
C30_JustOnlyAfterEdge ==
    FrameDrawn =>
        /\ last.just_pressed => last.had_pressed
        /\ last.just_released => last.had_released
        /\ Called003("on_press") => last.had_pressed
        /\ Called003("on_release") => last.had_released
        /\ Called003("on_activate") => last.had_pressed \/ last.had_released

\* a frame with the cursor over a button and no edge
C30_Witness ==
    /\ FrameDrawn
    /\ ~last.had_pressed
    /\ ~last.had_released
    /\ ui.hover_uid # uid_zero

\* what does hold: from the second frame on, the two are true exactly when
\* an Update saw the edge since the Draw before
C30_AfterFirstFrame ==
    FrameDrawn /\ last.frame >= 1 =>
        /\ last.just_pressed = last.had_pressed
        /\ last.just_released = last.had_released
        /\ Called003("on_press") => last.had_pressed
        /\ Called003("on_release") => last.had_released
        /\ Called003("on_activate") => last.had_pressed \/ last.had_released

\* a press is seen by the frame after the first that follows it
C30_EdgeWitness ==
    /\ FrameDrawn
    /\ last.frame >= 1
    /\ last.had_pressed
    /\ last.just_pressed
    /\ Called003("on_press")

====
